---- MODULE Spec2Model ----
(***************************************************************************)
(* Lead scoring and lifecycle of the Raptorflow lead engine: the score     *)
(* bucket function, the single-signal and batch classification handlers,   *)
(* the manual score override with its audit records, the manual status     *)
(* update and the auto-park sweep (router and scheduled variants).         *)
(*                                                                         *)
(* Scores are floats in the source; the model uses integers.  Timestamps   *)
(* are integers (days) read from one clock, now.  A nullable column is a   *)
(* set with at most one element: {} is NULL.                               *)
(***************************************************************************)
EXTENDS Integers, Sequences, FiniteSets, TLC

\* ------------------------------------------------------------------ bounds
MaxLeads == 2
MaxOverrides == 2
MaxTime == 1
MaxBatch == 2
MaxGets == 2

\* CacheManager.max_size and CacheManager.ttl_seconds (config.py:50-51 give
\* 1000 entries and 30 days): two entries, one clock step.
max_size == 2
ttl_seconds == 1

\* --------------------------------------------------------------- constants
\* leads.py:112, lead_service.py:15
VALID_STATUSES ==
    {"new", "contacted", "qualified", "pitched", "trial", "won", "lost", "parked"}

\* config.py:35
prefilter_score_threshold == 20

\* Settings.auto_park_days, read by the sweep; config.py does not declare it,
\* the deployment supplies it.  With 0 every lead created before the current
\* clock value is stale and a lead created at it is not.
auto_park_days == 0

\* ------------------------------------------------------------------ inputs
\* Status strings callers send: four of the enum and one outside it; for a lead
\* id that does not exist, one of each kind.
StatusInputs == {"new", "contacted", "won", "parked", "archived"}
UnknownLeadStatusInputs == {"contacted", "archived"}
OverrideScoreInputs == {55, 150}
ReasonInputs == {{"manual QA"}}

\* What ollama.classify_signal hands back for one signal of a batch: the
\* fail-open default (all scores 0) or a parsed JSON object with the model's
\* scores.
Classification(f, p, q) ==
    [score_fit |-> f, score_pain |-> p, score_data_quality |-> q]

ModelClassifications ==
    { Classification(0, 0, 0),
      Classification(40, 30, 8) }

VARIABLES
    leads,            \* table leads: sequence of rows, id = index
    score_overrides,  \* table score_overrides, in insertion order
    now,              \* datetime.utcnow() / datetime.now()
    settings,         \* Settings(): the deployment's configuration
    resp,             \* the request last served and its response
    cache_manager,    \* the CacheManager singleton and the Redis keyspace it uses
    set_log,          \* per cache key, the value and expiry of the last cache_set
    last_call,        \* the cache or model-client call last made and its outcome
    model_service,    \* the model service: the response text it gives a prompt
    signals,          \* the signals of the batch being classified
    tasks,            \* per signal of the batch, where its coroutine stands
    semaphore,        \* asyncio.Semaphore: the permits left
    sweep_session     \* the Session of a sweep between its query and its commit

\* The classification pipeline's state and the open sweep; the requests of the
\* lead lifecycle leave them alone.
pipeline_vars ==
    <<cache_manager, set_log, last_call, model_service, sweep_session, signals,
      tasks, semaphore>>

vars == <<leads, score_overrides, now, settings, resp, pipeline_vars>>

\* ------------------------------------------------------------ pure helpers
compute_score_bucket(total_score) ==
    IF total_score >= 80 THEN "red_hot"
    ELSE IF total_score >= 60 THEN "warm"
    ELSE IF total_score >= 40 THEN "nurture"
    ELSE "parked"

Max(a, b) == IF a >= b THEN a ELSE b
Min(a, b) == IF a <= b THEN a ELSE b

LeadIds == 1..Len(leads)

\* Lead ids callers send: every existing one and one that does not exist.
UnknownLeadId == Len(leads) + 1
LeadIdInputs == LeadIds \cup {UnknownLeadId}

\* A row as the batch handler inserts it (classify.py:418-436); the columns the
\* constructor does not name take the defaults of database.py.
BatchLead(c, total_score, t) ==
    [ score_icp_fit         |-> c.score_fit,
      score_marketing_pain  |-> c.score_pain,
      score_data_quality    |-> c.score_data_quality,
      total_score           |-> total_score,
      score_bucket          |-> compute_score_bucket(total_score),
      status                |-> "new",
      notes                 |-> <<>>,
      context_dossier       |-> {},
      heuristic_adjustments |-> <<>>,
      manual_score_override |-> {},
      override_reason       |-> {},
      auto_parked_at        |-> {},
      created_at            |-> t,
      updated_at            |-> t ]

\* The request last served: the handler, its parameters, the HTTP status and
\* the returned body.
Response(op, req, code, body) ==
    [op |-> op, req |-> req, code |-> code, body |-> body]

\* cache_manager.py:35-75: a CacheManager as constructed, with no hits, no
\* misses and an empty memory store.  The dict _memory_cache is a sequence of
\* entries in insertion order.  redis is the keyspace of the Redis server behind
\* redis_client: it exists before the process starts and outlives it.
CacheManager(backend, redis) ==
    [ backend      |-> backend,
      hits         |-> 0,
      misses       |-> 0,
      memory_cache |-> <<>>,
      redis        |-> redis ]

\* No cache or model-client call has been made yet.
NoCall == [op |-> "none"]

\* No sweep stands between its query and its commit.
NoSession == [open |-> FALSE]

\* -------------------------------------------------------------------- Init
\* The lead lifecycle after startup; no batch is running.
Init ==
    /\ leads = <<>>
    /\ score_overrides = <<>>
    /\ now = 0
    /\ settings = [enable_auto_park |-> TRUE]
    /\ resp = Response("none", <<>>, 0, <<>>)
    /\ cache_manager = CacheManager("memory", {})
    /\ set_log = {}
    /\ last_call = NoCall
    /\ model_service = <<>>
    /\ signals = <<>>
    /\ tasks = <<>>
    /\ semaphore = 0
    /\ sweep_session = NoSession

\* The clock advances between requests.
Tick ==
    /\ now < MaxTime
    /\ now' = now + 1
    /\ UNCHANGED <<pipeline_vars, leads, score_overrides, settings, resp>>

\* ------------------------------------------------ manual status transition
\* A status update that also clears the manual override of the lead.
StatusRow_ResetsOverride(lead, status, t) ==
    [lead EXCEPT !.status = status, !.manual_score_override = {}, !.updated_at = t]

\* leads.py:116-117 / lead_service.py:104-105
StatusRow(lead, status, t) ==
    [lead EXCEPT !.status = status, !.updated_at = t]

\* A status update that writes the row before it validates the status.
update_lead_status_WritesFirst(lead_id, status) ==
    /\ IF lead_id \notin LeadIds
       THEN /\ resp' = Response("update_lead_status",
                                [lead_id |-> lead_id, status |-> status], 404,
                                [detail |-> "Lead not found"])
            /\ UNCHANGED leads
       ELSE /\ leads' = [leads EXCEPT ![lead_id] = StatusRow(@, status, now)]
            /\ IF status \notin VALID_STATUSES
               THEN resp' = Response("update_lead_status",
                                     [lead_id |-> lead_id, status |-> status], 400,
                                     [detail |-> "Invalid status"])
               ELSE resp' = Response("update_lead_status",
                                     [lead_id |-> lead_id, status |-> status], 200,
                                     [status |-> "ok", lead_id |-> lead_id,
                                      new_status |-> status])
    /\ UNCHANGED <<pipeline_vars, score_overrides, now, settings>>

\* PATCH /{lead_id}/status.  LeadService.update_lead_status (lead_service.py:
\* 78-108), which no router calls, makes the same checks in the same order and
\* the same two assignments.
update_lead_status(lead_id, status) ==
    /\ IF lead_id \notin LeadIds
       THEN /\ resp' = Response("update_lead_status",
                                [lead_id |-> lead_id, status |-> status], 404,
                                [detail |-> "Lead not found"])
            /\ UNCHANGED leads
       ELSE IF status \notin VALID_STATUSES
       THEN /\ resp' = Response("update_lead_status",
                                [lead_id |-> lead_id, status |-> status], 400,
                                [detail |-> "Invalid status"])
            /\ UNCHANGED leads
       ELSE /\ leads' = [leads EXCEPT ![lead_id] = StatusRow(@, status, now)]
            /\ resp' = Response("update_lead_status",
                                [lead_id |-> lead_id, status |-> status], 200,
                                [status |-> "ok", lead_id |-> lead_id,
                                 new_status |-> status])
    /\ UNCHANGED <<pipeline_vars, score_overrides, now, settings>>

\* ---------------------------------------------------- manual score override
\* An audit record that takes the requested value for the original one.
ScoreOverrideRow_NewAsOriginal(lead_id, original_score, override_score, reason) ==
    [ lead_id        |-> lead_id,
      user           |-> "admin",
      original_score |-> override_score,
      override_score |-> override_score,
      reason         |-> reason ]

\* classify.py:629-635
ScoreOverrideRow(lead_id, original_score, override_score, reason) ==
    [ lead_id        |-> lead_id,
      user           |-> "admin",
      original_score |-> original_score,
      override_score |-> override_score,
      reason         |-> reason ]

\* An override that records the value but leaves the bucket as it was.
OverrideRow_KeepsBucket(lead, override_score, reason, t) ==
    [lead EXCEPT !.manual_score_override = {override_score},
                 !.override_reason = reason,
                 !.total_score = override_score,
                 !.updated_at = t]

\* An override that is only stored next to the computed score.
OverrideRow_StoredOnly(lead, override_score, reason, t) ==
    [lead EXCEPT !.manual_score_override = {override_score},
                 !.override_reason = reason,
                 !.updated_at = t]

\* classify.py:639-643
OverrideRow(lead, override_score, reason, t) ==
    [lead EXCEPT !.manual_score_override = {override_score},
                 !.override_reason = reason,
                 !.total_score = override_score,
                 !.score_bucket = compute_score_bucket(override_score),
                 !.updated_at = t]

\* POST /leads/{lead_id}/override-score
override_lead_score(lead_id, override_score, reason) ==
    /\ IF lead_id \notin LeadIds
       THEN /\ resp' = Response("override_lead_score",
                                [lead_id |-> lead_id,
                                 override_score |-> override_score,
                                 reason |-> reason], 404,
                                [detail |-> "Lead not found"])
            /\ UNCHANGED <<pipeline_vars, leads, score_overrides>>
       ELSE /\ Len(score_overrides) < MaxOverrides
            /\ LET original_score == leads[lead_id].total_score IN
               /\ score_overrides' =
                      Append(score_overrides,
                             ScoreOverrideRow(lead_id, original_score,
                                              override_score, reason))
               /\ leads' = [leads EXCEPT
                              ![lead_id] = OverrideRow(@, override_score, reason, now)]
               /\ resp' = Response("override_lead_score",
                                   [lead_id |-> lead_id,
                                    override_score |-> override_score,
                                    reason |-> reason], 200,
                                   [lead_id |-> lead_id,
                                    original_score |-> original_score,
                                    override_score |-> override_score,
                                    new_bucket |-> leads'[lead_id].score_bucket,
                                    reason |-> reason])
    /\ UNCHANGED <<pipeline_vars, now, settings>>

\* GET /leads/{lead_id}/score-history: the lead's records, newest first
\* (records of one lead in insertion order, reversed).
RECURSIVE Reverse(_)
Reverse(s) == IF s = <<>> THEN <<>> ELSE Append(Reverse(Tail(s)), Head(s))

get_score_history(lead_id) ==
    Reverse(SelectSeq(score_overrides, LAMBDA r : r.lead_id = lead_id))

\* ----------------------------------------------------------- auto-park sweep
\* A selection by age alone.
leads_to_park_StaleOnly(t) ==
    { i \in LeadIds : leads[i].created_at < t - auto_park_days }

\* A selection that does not ask whether the lead was auto-parked before.
leads_to_park_IgnoresStamp(t) ==
    { i \in LeadIds :
        /\ leads[i].status = "new"
        /\ leads[i].created_at < t - auto_park_days }

\* classify.py:715-719 / scheduled_tasks.py:193-197
leads_to_park(t) ==
    { i \in LeadIds :
        /\ leads[i].status = "new"
        /\ leads[i].created_at < t - auto_park_days
        /\ leads[i].auto_parked_at = {} }

\* A sweep that takes the status parked for the score bucket parked as well.
ParkRow_BucketParked(lead, t) ==
    [lead EXCEPT !.status = "parked",
                 !.score_bucket = "parked",
                 !.auto_parked_at = {t},
                 !.notes = Append(@, "auto_parked"),
                 !.updated_at = t]

\* classify.py:740-743; the flush also fires updated_at's onupdate
\* (database.py:156).
ParkRow(lead, t) ==
    [lead EXCEPT !.status = "parked",
                 !.auto_parked_at = {t},
                 !.notes = Append(@, "auto_parked"),
                 !.updated_at = t]

ParkAll(ids, t) ==
    [i \in LeadIds |-> IF i \in ids THEN ParkRow(leads[i], t) ELSE leads[i]]

\* classify.py:726-732: one entry of the dry-run report.
DryRunEntry(i, t) ==
    [ id          |-> i,
      total_score |-> leads[i].total_score,
      created_at  |-> leads[i].created_at,
      days_old    |-> t - leads[i].created_at ]

\* A sweep whose dry run reports the candidates and parks them all the same.
auto_park_old_leads_DryRunParks(dry_run) ==
    /\ IF ~settings.enable_auto_park
       THEN /\ resp' = Response("auto_park_old_leads", [dry_run |-> dry_run], 200,
                                [message |-> "Auto-park is disabled in configuration"])
            /\ UNCHANGED leads
       ELSE LET cutoff_date == now - auto_park_days
                to_park == leads_to_park(now)
            IN IF dry_run
               THEN /\ resp' = Response("auto_park_old_leads",
                                        [dry_run |-> dry_run], 200,
                                        [dry_run |-> TRUE,
                                         leads_to_park |-> Cardinality(to_park),
                                         leads |-> {DryRunEntry(i, now) : i \in to_park}])
                    /\ leads' = ParkAll(to_park, now)
               ELSE /\ leads' = ParkAll(to_park, now)
                    /\ resp' = Response("auto_park_old_leads",
                                        [dry_run |-> dry_run], 200,
                                        [parked_count |-> Cardinality(to_park),
                                         cutoff_date |-> cutoff_date,
                                         auto_park_days |-> auto_park_days])
    /\ UNCHANGED <<pipeline_vars, score_overrides, now, settings>>

\* POST /leads/auto-park?dry_run=...
auto_park_old_leads(dry_run) ==
    /\ IF ~settings.enable_auto_park
       THEN /\ resp' = Response("auto_park_old_leads", [dry_run |-> dry_run], 200,
                                [message |-> "Auto-park is disabled in configuration"])
            /\ UNCHANGED leads
       ELSE LET cutoff_date == now - auto_park_days
                to_park == leads_to_park(now)
            IN IF dry_run
               THEN /\ resp' = Response("auto_park_old_leads",
                                        [dry_run |-> dry_run], 200,
                                        [dry_run |-> TRUE,
                                         leads_to_park |-> Cardinality(to_park),
                                         leads |-> {DryRunEntry(i, now) : i \in to_park}])
                    /\ UNCHANGED leads
               ELSE /\ leads' = ParkAll(to_park, now)
                    /\ resp' = Response("auto_park_old_leads",
                                        [dry_run |-> dry_run], 200,
                                        [parked_count |-> Cardinality(to_park),
                                         cutoff_date |-> cutoff_date,
                                         auto_park_days |-> auto_park_days])
    /\ UNCHANGED <<pipeline_vars, score_overrides, now, settings>>

\* The daily job (scheduled_tasks.py:173-223).
scheduled_auto_park_leads ==
    /\ IF ~settings.enable_auto_park
       THEN /\ resp' = Response("scheduled_auto_park_leads", <<>>, 200,
                                [message |-> "Auto-park disabled"])
            /\ UNCHANGED leads
       ELSE LET cutoff_date == now - auto_park_days
                to_park == leads_to_park(now)
            IN /\ leads' = ParkAll(to_park, now)
               /\ resp' = Response("scheduled_auto_park_leads", <<>>, 200,
                                   [parked_count |-> Cardinality(to_park),
                                    cutoff_date |-> cutoff_date,
                                    auto_park_days |-> auto_park_days,
                                    timestamp |-> now])
    /\ UNCHANGED <<pipeline_vars, score_overrides, now, settings>>

\* ------------------------------------------------------ batch classification
\* classify.py:327-331
base_total(c) == c.score_fit + c.score_pain + c.score_data_quality

\* One signal of a batch, with what happens to it: the model call raises inside
\* classify_single, or it returns classification c and the later persistence
\* of the lead (company, signal, lead commits) raises or does not.
BatchItems ==
    {[kind |-> "classify_raises"]}
    \cup { [kind |-> "classified", c |-> c, persist_raises |-> FALSE] :
             c \in ModelClassifications }
    \cup { [kind |-> "classified", c |-> c, persist_raises |-> TRUE] :
             c \in {d \in ModelClassifications :
                      base_total(d) >= prefilter_score_threshold} }

RECURSIVE SeqsUpTo(_, _)
SeqsUpTo(S, n) ==
    IF n = 0 THEN {<<>>}
    ELSE LET shorter == SeqsUpTo(S, n - 1)
         IN shorter \cup {Append(s, x) : s \in {t \in shorter : Len(t) = n - 1}, x \in S}

\* A prefilter that also drops an item whose total equals the threshold.
classify_single_InclusiveThreshold(item) ==
    IF item.kind = "classify_raises"
    THEN [status |-> "error", total_score |-> {}, lead_id |-> {},
          error |-> {"classify"}]
    ELSE LET total_score == base_total(item.c)
         IN IF total_score <= prefilter_score_threshold
            THEN [status |-> "filtered", total_score |-> {total_score},
                  lead_id |-> {}, error |-> {}]
            ELSE [status |-> "ok", total_score |-> {total_score},
                  lead_id |-> {}, error |-> {}]

\* classify.py:318-357: the per-item result.  lead_id, total_score and error
\* are absent keys until set ({} here).
classify_single(item) ==
    IF item.kind = "classify_raises"
    THEN [status |-> "error", total_score |-> {}, lead_id |-> {},
          error |-> {"classify"}]
    ELSE LET total_score == base_total(item.c)
         IN IF total_score < prefilter_score_threshold
            THEN [status |-> "filtered", total_score |-> {total_score},
                  lead_id |-> {}, error |-> {}]
            ELSE [status |-> "ok", total_score |-> {total_score},
                  lead_id |-> {}, error |-> {}]

\* A failed persistence that leaves the item's status as it was.
PersistFailed_StatusKept(result) == result

\* classify.py:446-449
PersistFailed(result) == [result EXCEPT !.status = "error", !.error = {"persist"}]

\* classify.py:378-449: the loop over the results, in order.  acc carries the
\* leads table, the results rewritten so far, the list created_leads and the
\* state of the request's Session.  persist_raises is a statement of the item
\* failing in the flush of a commit.  The except clause (446-449) does not call
\* db.rollback(), and a Session whose flush failed refuses every statement
\* until rollback: the commits of the items after a failed one raise as well.
RECURSIVE CreateLeads(_, _, _, _)
CreateLeads(items, results, i, acc) ==
    IF i > Len(results) THEN acc
    ELSE IF results[i].status # "ok"
    THEN CreateLeads(items, results, i + 1,
                     [acc EXCEPT !.results = Append(@, results[i])])
    ELSE IF items[i].persist_raises \/ acc.inactive
    THEN CreateLeads(items, results, i + 1,
                     [acc EXCEPT !.results = Append(@, PersistFailed(results[i])),
                                 !.inactive = TRUE])
    ELSE LET total_score == CHOOSE x \in results[i].total_score : TRUE
             db_lead_id  == Len(acc.leads) + 1
         IN CreateLeads(items, results, i + 1,
                [leads         |-> Append(acc.leads,
                                          BatchLead(items[i].c, total_score, now)),
                 results       |-> Append(acc.results,
                                          [results[i] EXCEPT !.lead_id = {db_lead_id}]),
                 created_leads |-> Append(acc.created_leads, db_lead_id),
                 inactive      |-> FALSE])

CountStatus(results, status) ==
    Cardinality({i \in 1..Len(results) : results[i].status = status})

\* classify.py:455-461.  The recorded summary leaves out the "results" list.
BatchSummary(results, created_leads) ==
    [ count         |-> Len(results),
      created_leads |-> Len(created_leads),
      filtered      |-> CountStatus(results, "filtered"),
      errors        |-> CountStatus(results, "error") ]

\* POST /signal/batch
classify_signals_batch(items) ==
    LET results == [i \in 1..Len(items) |-> classify_single(items[i])]
        done    == CreateLeads(items, results, 1,
                               [leads |-> leads, results |-> <<>>,
                                created_leads |-> <<>>, inactive |-> FALSE])
    IN /\ Len(done.leads) <= MaxLeads
       /\ leads' = done.leads
       /\ resp' = Response("classify_signals_batch",
                           [signals |-> Len(items)], 200,
                           BatchSummary(done.results, done.created_leads))
       /\ UNCHANGED <<pipeline_vars, score_overrides, now, settings>>

\* ---------------------------------------------- single-signal classification
\* classify.py:157-159 and 167-169
raw_total_score(c, total_adjustment, funding_bonus) ==
    base_total(c) + total_adjustment + funding_bonus

\* classify.py:179
clamp_score(total_score) == Max(0, Min(100, total_score))

\* POST /signal.  The handler's body is one try block.  Python makes settings a
\* local of classify_signal because line 254 assigns it (the module defines no
\* settings of its own); line 126 reads it before that assignment, which raises
\* UnboundLocalError on every call.  The except clause at 286 turns that into
\* HTTP 500.  Up to line 126 the handler has only read the ICP profiles and
\* called the model: no row has been written.
classify_signal(c, total_adjustment, funding_bonus) ==
    /\ resp' = Response("classify_signal",
                        [classification |-> c,
                         total_adjustment |-> total_adjustment,
                         funding_bonus |-> funding_bonus], 500,
                        [detail |-> "UnboundLocalError: settings"])
    /\ UNCHANGED <<pipeline_vars, leads, score_overrides, now, settings>>

\* Requests to POST /signal: what the model returns for the signal, the sum of
\* the heuristic adjustments of its text, and the funding bonus that applies.
SingleSignalInputs ==
    { [c |-> Classification(40, 30, 8), total_adjustment |-> 15, funding_bonus |-> 0],
      [c |-> Classification(10, 5, 2), total_adjustment |-> 0 - 30, funding_bonus |-> 0],
      [c |-> Classification(90, 40, 10), total_adjustment |-> 0, funding_bonus |-> 10] }

\* -------------------------------------------------------------------- Next
Next ==
    \/ Tick
    \/ \E x \in SingleSignalInputs :
          classify_signal(x.c, x.total_adjustment, x.funding_bonus)
    \/ \E items \in SeqsUpTo(BatchItems, MaxBatch) : classify_signals_batch(items)
    \/ \E id \in LeadIdInputs, s \in OverrideScoreInputs, r \in ReasonInputs :
          override_lead_score(id, s, r)
    \/ \E id \in LeadIds, st \in StatusInputs : update_lead_status(id, st)
    \/ \E st \in UnknownLeadStatusInputs : update_lead_status(UnknownLeadId, st)
    \/ \E d \in BOOLEAN : auto_park_old_leads(d)
    \/ scheduled_auto_park_leads

Spec == Init /\ [][Next]_vars

\* ============================================================ result cache
\* Texts (signal text, serialized context, model identifier) are sequences of
\* one-character strings, so that strip() and lower() are computed.
Lower(ch) ==
    CASE ch = "A" -> "a"
      [] ch = "B" -> "b"
      [] OTHER -> ch

\* str.lower()
lower(text) == [i \in 1..Len(text) |-> Lower(text[i])]

\* str.strip(): the blank is the only whitespace of the texts used here.
RECURSIVE strip(_)
strip(text) ==
    IF text = <<>> THEN <<>>
    ELSE IF Head(text) = " " THEN strip(Tail(text))
    ELSE IF text[Len(text)] = " " THEN strip(SubSeq(text, 1, Len(text) - 1))
    ELSE text

\* cache_manager.py:100-122.  icp_context is Optional[str].  The key is the
\* SHA-256 of key_string; the digest is taken as collision-free and the key
\* stands as key_string itself.
generate_cache_key(signal_text, icp_context, model) ==
    LET normalized_signal == lower(strip(signal_text))
        normalized_icp ==
            lower(strip(IF icp_context = {} THEN <<>>
                        ELSE CHOOSE x \in icp_context : TRUE))
    IN normalized_signal \o <<"|">> \o normalized_icp \o <<"|">> \o model

\* json.dumps(value) as the Redis backend stores it, and json.loads of a stored
\* string.  A string that is not JSON makes json.loads raise.
json_dumps(value) == [text |-> "json", value |-> value]
JsonDecodable(payload) == payload.text = "json"
json_loads(payload) == payload.value

\* The result of a get and the manager it leaves; result is {} for None.
GetOutcome(cm, result) == [cm |-> cm, result |-> result]

\* del d[k] on the dict's sequence of entries
RemoveAt(store, i) ==
    [j \in 1..(Len(store) - 1) |-> IF j < i THEN store[j] ELSE store[j + 1]]

\* A memory get that takes an entry as expired one clock step early.
MemoryGet_EarlyExpiry(cm, cache_key, t) ==
    LET at == {i \in DOMAIN cm.memory_cache : cm.memory_cache[i].key = cache_key}
    IN IF at # {}
       THEN LET i     == CHOOSE j \in at : TRUE
                entry == cm.memory_cache[i]
            IN IF t + 1 < entry.expires_at
               THEN GetOutcome([cm EXCEPT !.hits = @ + 1], {entry.value})
               ELSE GetOutcome([cm EXCEPT !.memory_cache = RemoveAt(@, i),
                                          !.misses = @ + 1], {})
       ELSE GetOutcome([cm EXCEPT !.misses = @ + 1], {})

\* A memory get that reports an expired entry as a miss and leaves it stored.
MemoryGet_KeepsExpired(cm, cache_key, t) ==
    LET at == {i \in DOMAIN cm.memory_cache : cm.memory_cache[i].key = cache_key}
    IN IF at # {}
       THEN LET entry == cm.memory_cache[CHOOSE j \in at : TRUE]
            IN IF t < entry.expires_at
               THEN GetOutcome([cm EXCEPT !.hits = @ + 1], {entry.value})
               ELSE GetOutcome([cm EXCEPT !.misses = @ + 1], {})
       ELSE GetOutcome([cm EXCEPT !.misses = @ + 1], {})

\* cache_manager.py:156-173: the memory branch of get
MemoryGet(cm, cache_key, t) ==
    LET at == {i \in DOMAIN cm.memory_cache : cm.memory_cache[i].key = cache_key}
    IN IF at # {}
       THEN LET i     == CHOOSE j \in at : TRUE
                entry == cm.memory_cache[i]
            IN IF t < entry.expires_at
               THEN GetOutcome([cm EXCEPT !.hits = @ + 1], {entry.value})
               ELSE GetOutcome([cm EXCEPT !.memory_cache = RemoveAt(@, i),
                                          !.misses = @ + 1], {})
       ELSE GetOutcome([cm EXCEPT !.misses = @ + 1], {})

\* The keys Redis still serves at time t: it drops a key when its TTL is over.
RedisLive(redis, t) == {e \in redis : t < e.expires_at}

\* cache_manager.py:144-154 and 174-177: the Redis branch of get.  redis_up says
\* whether the server answers; if not, redis_client.get raises.  On a found key
\* hits is counted before json.loads runs inside the same try.
RedisGet(cm, cache_key, t, redis_up) ==
    IF ~redis_up
    THEN GetOutcome([cm EXCEPT !.misses = @ + 1], {})
    ELSE LET found == {e \in RedisLive(cm.redis, t) : e.key = cache_key}
         IN IF found = {}
            THEN GetOutcome([cm EXCEPT !.misses = @ + 1], {})
            ELSE LET cached_value == (CHOOSE e \in found : TRUE).payload
                 IN IF JsonDecodable(cached_value)
                    THEN GetOutcome([cm EXCEPT !.hits = @ + 1],
                                    {json_loads(cached_value)})
                    ELSE GetOutcome([cm EXCEPT !.hits = @ + 1, !.misses = @ + 1], {})

\* cache_manager.py:124-177
get(cm, signal_text, icp_context, model, t, redis_up) ==
    LET cache_key == generate_cache_key(signal_text, icp_context, model)
    IN IF cm.backend = "redis"
       THEN RedisGet(cm, cache_key, t, redis_up)
       ELSE MemoryGet(cm, cache_key, t)

\* cache_manager.py:198: ttl = ttl or self.ttl_seconds
EffectiveTtl(ttl) ==
    IF ttl = {} \/ ttl = {0} THEN ttl_seconds ELSE CHOOSE x \in ttl : TRUE

\* d[k] = entry: an existing key keeps its place in the dict, a new key goes
\* to the end.
Assign(store, entry) ==
    IF \E i \in DOMAIN store : store[i].key = entry.key
    THEN [i \in DOMAIN store |-> IF store[i].key = entry.key THEN entry ELSE store[i]]
    ELSE Append(store, entry)

\* An eviction that drops the newest entry instead.
Evict_Newest(store) ==
    IF Len(store) >= max_size THEN SubSeq(store, 1, Len(store) - 1) ELSE store

\* cache_manager.py:211-215: next(iter(d)) is the first key of the dict.
Evict(store) == IF Len(store) >= max_size THEN Tail(store) ELSE store

\* cache_manager.py:209-221: the memory branch of set.  With an empty dict and
\* max_size 0, next(iter(d)) raises and the set stores nothing.
MemorySet(cm, cache_key, value, ttl, t) ==
    IF Len(cm.memory_cache) >= max_size /\ cm.memory_cache = <<>>
    THEN cm
    ELSE [cm EXCEPT !.memory_cache =
             Assign(Evict(@), [key |-> cache_key, value |-> value,
                               expires_at |-> t + ttl])]

\* cache_manager.py:201-208 and 222-223: SETEX, or nothing if the server does
\* not answer.
RedisSet(cm, cache_key, value, ttl, t, redis_up) ==
    IF ~redis_up THEN cm
    ELSE [cm EXCEPT !.redis =
             {e \in RedisLive(@, t) : e.key # cache_key}
             \cup {[key |-> cache_key, payload |-> json_dumps(value),
                    expires_at |-> t + ttl]}]

\* cache_manager.py:179-223; set is the manager it leaves.
set(cm, signal_text, value, icp_context, model, ttl, t, redis_up) ==
    LET cache_key == generate_cache_key(signal_text, icp_context, model)
    IN IF cm.backend = "redis"
       THEN RedisSet(cm, cache_key, value, EffectiveTtl(ttl), t, redis_up)
       ELSE MemorySet(cm, cache_key, value, EffectiveTtl(ttl), t)

\* cache_manager.py:225-243
invalidate(cm, signal_text, icp_context, model, t, redis_up) ==
    LET cache_key == generate_cache_key(signal_text, icp_context, model)
    IN IF cm.backend = "redis"
       THEN IF redis_up
            THEN [cm EXCEPT !.redis = {e \in RedisLive(@, t) : e.key # cache_key}]
            ELSE cm
       ELSE [cm EXCEPT !.memory_cache =
                SelectSeq(@, LAMBDA e : e.key # cache_key)]

\* cache_manager.py:245-266
clear_all(cm, redis_up) ==
    IF cm.backend = "redis"
    THEN IF redis_up THEN [cm EXCEPT !.redis = {}] ELSE cm
    ELSE [cm EXCEPT !.memory_cache = <<>>]

\* cache_manager.py:268-282
get_stats(cm) ==
    [ backend        |-> cm.backend,
      hits           |-> cm.hits,
      misses         |-> cm.misses,
      total_requests |-> cm.hits + cm.misses,
      cache_size     |-> IF cm.backend = "memory" THEN {Len(cm.memory_cache)} ELSE {} ]

\* ------------------------------------------------------- cache: the calls
\* JSON values as the model's response carries them: a number, a boolean, a
\* string, or an array (whatever its items).
JNum(n) == [json |-> "number", n |-> n]
JBool(b) == [json |-> "bool", b |-> b]
JStr(str) == [json |-> "string", s |-> str]
JArray == [json |-> "array"]

\* Classification dicts.  A dict is a function from its keys to JSON values;
\* the empty dict has no key.
EmptyDict == [k \in {} |-> 0]

\* ollama_wrapper.py:546-566, the fields the scoring and the lead row read
default_classification ==
    [ icp_match          |-> JBool(FALSE),
      score_fit          |-> JNum(0),
      score_pain         |-> JNum(0),
      score_data_quality |-> JNum(0),
      role_type          |-> JStr("unclear") ]

\* A classification as the prompt asks for it (ollama_wrapper.py:486-505).
ModelClassification(f, p, q) ==
    [ icp_match          |-> JBool(TRUE),
      score_fit          |-> JNum(f),
      score_pain         |-> JNum(p),
      score_data_quality |-> JNum(q),
      role_type          |-> JStr("founder") ]

HotClassification == ModelClassification(40, 30, 8)

\* ollama_wrapper.py:243 and 295: model="1b"
model_1b == <<"1", "b">>

\* The (signal_text, icp_context, model) triples callers use: two signal texts
\* that differ in case and blanks only, a third text, and the third text with a
\* serialized context.
CacheRequest(signal_text, icp_context) ==
    [signal_text |-> signal_text, icp_context |-> icp_context, model |-> model_1b]

CacheRequests ==
    { CacheRequest(<<"A">>, {}),
      CacheRequest(<<" ", "a">>, {}),
      CacheRequest(<<"B">>, {}),
      CacheRequest(<<"B">>, {<<"x">>}) }

KeyOf(r) == generate_cache_key(r.signal_text, r.icp_context, r.model)

\* Values callers store.
CacheValues == {HotClassification, EmptyDict}

\* The entry for cache_key the backend holds at time t, expired or not for the
\* memory store, live for Redis.
StoredEntries(cm, cache_key, t) ==
    IF cm.backend = "redis"
    THEN {e \in RedisLive(cm.redis, t) : e.key = cache_key}
    ELSE {cm.memory_cache[i] : i \in {j \in DOMAIN cm.memory_cache :
                                         cm.memory_cache[j].key = cache_key}}

\* The keys of the memory store, and the key a set at time t would evict.
MemoryKeys(cm) == {cm.memory_cache[i].key : i \in DOMAIN cm.memory_cache}

\* Whether a set through the manager cm reaches the store.
SetStores(cm, redis_up) ==
    IF cm.backend = "redis" THEN redis_up
    ELSE ~(Len(cm.memory_cache) >= max_size /\ cm.memory_cache = <<>>)

\* The record of sets: the set just made replaces the key's record, and an
\* entry the set evicted is marked.
LogSet(log, cm, cache_key, value, expires_at, redis_up) ==
    LET victims == IF cm.backend = "memory" /\ Len(cm.memory_cache) >= max_size
                      /\ cm.memory_cache # <<>>
                   THEN {Head(cm.memory_cache).key} ELSE {}
        marked  == {[e EXCEPT !.evicted = @ \/ e.key \in victims] : e \in log}
    IN IF SetStores(cm, redis_up)
       THEN {e \in marked : e.key # cache_key}
            \cup {[key |-> cache_key, value |-> value,
                   expires_at |-> expires_at, evicted |-> FALSE]}
       ELSE marked

\* await cache_manager.get(...)
cache_get(r, redis_up) ==
    /\ cache_manager.hits + cache_manager.misses < MaxGets
    /\ LET g == get(cache_manager, r.signal_text, r.icp_context, r.model, now, redis_up)
       IN /\ cache_manager' = g.cm
          /\ last_call' = [op |-> "get", key |-> KeyOf(r), at |-> now,
                           reached |-> redis_up, result |-> g.result]
    /\ UNCHANGED <<leads, score_overrides, now, settings, resp,
                   set_log, model_service, sweep_session, signals, tasks, semaphore>>

\* await cache_manager.set(...), with the default ttl
cache_set(r, value, redis_up) ==
    /\ cache_manager' = set(cache_manager, r.signal_text, value, r.icp_context,
                            r.model, {}, now, redis_up)
    /\ set_log' = LogSet(set_log, cache_manager, KeyOf(r), value,
                         now + EffectiveTtl({}), redis_up)
    /\ last_call' = [op |-> "set", key |-> KeyOf(r), at |-> now,
                     reached |-> redis_up, size_before |-> Len(cache_manager.memory_cache)]
    /\ UNCHANGED <<leads, score_overrides, now, settings, resp,
                   model_service, sweep_session, signals, tasks, semaphore>>

\* await cache_manager.invalidate(...)
cache_invalidate(r, redis_up) ==
    /\ cache_manager' = invalidate(cache_manager, r.signal_text, r.icp_context,
                                   r.model, now, redis_up)
    /\ set_log' = {e \in set_log : e.key # KeyOf(r)}
    /\ last_call' = [op |-> "invalidate", key |-> KeyOf(r), at |-> now,
                     reached |-> redis_up]
    /\ UNCHANGED <<leads, score_overrides, now, settings, resp,
                   model_service, sweep_session, signals, tasks, semaphore>>

\* await cache_manager.clear_all()
cache_clear_all(redis_up) ==
    /\ cache_manager' = clear_all(cache_manager, redis_up)
    /\ set_log' = {}
    /\ last_call' = [op |-> "clear_all", at |-> now, reached |-> redis_up]
    /\ UNCHANGED <<leads, score_overrides, now, settings, resp,
                   model_service, sweep_session, signals, tasks, semaphore>>

\* The Redis keyspace found at startup: empty, or holding under one of the
\* manager's keys a string that is not JSON (the server is shared and outlives
\* the process).
RedisKeyspaces ==
    { {},
      {[key        |-> KeyOf(CacheRequest(<<"B">>, {})),
        payload    |-> [text |-> "not json"],
        expires_at |-> MaxTime + ttl_seconds + 1]} }

InitCache ==
    /\ leads = <<>>
    /\ score_overrides = <<>>
    /\ now = 0
    /\ settings = [enable_auto_park |-> TRUE]
    /\ resp = Response("none", <<>>, 0, <<>>)
    /\ cache_manager \in {CacheManager("memory", {})}
                         \cup {CacheManager("redis", k) : k \in RedisKeyspaces}
    /\ set_log = {}
    /\ last_call = NoCall
    /\ model_service = <<>>
    /\ signals = <<>>
    /\ tasks = <<>>
    /\ semaphore = 0
    /\ sweep_session = NoSession

NextCache ==
    \/ Tick
    \/ \E r \in CacheRequests, up \in BOOLEAN : cache_get(r, up)
    \/ \E r \in CacheRequests, v \in CacheValues, up \in BOOLEAN : cache_set(r, v, up)
    \/ \E r \in CacheRequests, up \in BOOLEAN : cache_invalidate(r, up)
    \/ \E up \in BOOLEAN : cache_clear_all(up)

SpecCache == InitCache /\ [][NextCache]_vars

\* ============================================================ model client
\* config.py:48, read at ollama_wrapper.py:123
enable_response_cache == TRUE

\* The text of a model response, as a sequence of tokens: a run of characters
\* without braces ("chat"), a stray brace, or a complete JSON object.
Chat == [t |-> "chat"]
OpenBrace == [t |-> "{"]
CloseBrace == [t |-> "}"]
JsonObject(d) == [t |-> "object", value |-> d]

\* json.loads(text): a text is JSON when it is one object.
IsJson(text) == Len(text) = 1 /\ text[1].t = "object"

\* response_text.find("{") and response_text.rfind("}"), as token positions;
\* 0 when there is none (-1 in the source).
find_open(text) ==
    LET at == {i \in DOMAIN text : text[i].t \in {"{", "object"}}
    IN IF at = {} THEN 0 ELSE CHOOSE i \in at : \A j \in at : i <= j

rfind_close(text) ==
    LET at == {i \in DOMAIN text : text[i].t \in {"}", "object"}}
    IN IF at = {} THEN 0 ELSE CHOOSE i \in at : \A j \in at : i >= j

\* A parser that hands back the empty dict where the source hands back default.
parse_json_response_EmptyOnFailure(response_text, default) ==
    IF IsJson(response_text) THEN response_text[1].value ELSE EmptyDict

\* ollama_wrapper.py:528-544
parse_json_response(response_text, default) ==
    IF IsJson(response_text) THEN response_text[1].value
    ELSE LET start_idx == find_open(response_text)
             end_idx   == rfind_close(response_text)
         IN IF start_idx >= 1 /\ end_idx >= start_idx
            THEN LET inner == SubSeq(response_text, start_idx, end_idx)
                 IN IF IsJson(inner) THEN inner[1].value ELSE default
            ELSE default

\* How the generate request ends: the post times out, raise_for_status raises
\* on a non-success status, or a body with the response text arrives.
ModelOutcomes ==
    { [kind |-> "timeout"], [kind |-> "http_error"] }
    \cup { [kind |-> "text", text |-> text] :
             text \in { <<JsonObject(HotClassification)>>,
                        <<JsonObject(EmptyDict)>>,
                        <<Chat, JsonObject(HotClassification), Chat>>,
                        <<Chat>>,
                        <<OpenBrace, Chat>> } }

\* if cached_result: a dict is true when it has a key.
Truthy(result) == result # {} /\ DOMAIN (CHOOSE v \in result : TRUE) # {}

\* ollama_wrapper.py:236-247: the cache lookup.  returns says whether the call
\* returns the cached result.
ClientLookup(cm, r, use_cache, t, redis_up) ==
    IF use_cache /\ enable_response_cache
    THEN LET g == get(cm, r.signal_text, r.icp_context, model_1b, t, redis_up)
         IN [cm |-> g.cm, cached_result |-> g.result, returns |-> Truthy(g.result)]
    ELSE [cm |-> cm, cached_result |-> {}, returns |-> FALSE]

\* ollama_wrapper.py:265-303: the generate request and what follows it.  wrote
\* says whether cache_manager.set was called.
ClientComplete(cm, r, use_cache, outcome, t, redis_up) ==
    IF outcome.kind # "text"
    THEN [cm |-> cm, result |-> default_classification, wrote |-> FALSE]
    ELSE LET result == parse_json_response(outcome.text, default_classification)
         IN IF use_cache /\ enable_response_cache
            THEN [cm |-> set(cm, r.signal_text, result, r.icp_context, model_1b,
                             {}, t, redis_up),
                  result |-> result, wrote |-> TRUE]
            ELSE [cm |-> cm, result |-> result, wrote |-> FALSE]

\* The signals and contexts the client is called with.
ClientRequests ==
    { CacheRequest(<<"A">>, {}), CacheRequest(<<"B">>, {}) }

\* OllamaManager.classify_signal (ollama_wrapper.py:214-303), one whole call.
\* requests counts the generate requests the call sent.
ollama_classify_signal(r, use_cache, outcome, redis_up) ==
    LET looked == ClientLookup(cache_manager, r, use_cache, now, redis_up)
        done   == ClientComplete(looked.cm, r, use_cache, outcome, now, redis_up)
        call   == [op |-> "classify_signal", key |-> KeyOf(r), at |-> now,
                   use_cache |-> use_cache, reached |-> redis_up]
    IN /\ (use_cache /\ enable_response_cache)
              => cache_manager.hits + cache_manager.misses < MaxGets
       /\ IF looked.returns
          THEN /\ cache_manager' = looked.cm
               /\ set_log' = set_log
               /\ last_call' = call @@
                               [requests |-> 0, response |-> [kind |-> "none"],
                                result |-> CHOOSE v \in looked.cached_result : TRUE,
                                raised |-> FALSE]
          ELSE /\ cache_manager' = done.cm
               /\ set_log' = IF done.wrote
                             THEN LogSet(set_log, looked.cm, KeyOf(r), done.result,
                                         now + EffectiveTtl({}), redis_up)
                             ELSE set_log
               /\ last_call' = call @@
                               [requests |-> 1, response |-> outcome,
                                result |-> done.result, raised |-> FALSE]
       /\ UNCHANGED <<leads, score_overrides, now, settings, resp,
                      model_service, sweep_session, signals, tasks, semaphore>>

NextClient ==
    \/ Tick
    \/ \E r \in ClientRequests, use_cache \in BOOLEAN, outcome \in ModelOutcomes,
          up \in BOOLEAN : ollama_classify_signal(r, use_cache, outcome, up)
    \/ \E up \in BOOLEAN : cache_clear_all(up)

SpecClient == InitCache /\ [][NextClient]_vars

\* ========================================================= batch pipeline
\* POST /signal/batch with its awaits: classify.py:290-461 run as coroutines.
\* One step runs a coroutine from a suspension point to the next; the memory
\* cache never suspends.

\* config.py:59 gives batch_concurrency_limit 5: two permits here.
batch_concurrency_limit == 2

\* The number of signals in the batch: one more than there are permits.
BatchSize == 3

\* Signal texts of a batch: two that differ in case and blanks only, so that
\* they share a cache key, and a third.
BatchTexts == {<<"A">>, <<" ", "a">>, <<"B">>}

\* classify.py:310-316: the ICP context built once for the request, serialized.
batch_icp_context == {<<"x">>}

\* Classifications the model gives in a batch: total exactly at the prefilter
\* threshold, total one below it, role_type a JSON array where the prompt asks
\* for a string, and score_fit a JSON string where it asks for a number.
EdgeClassification == ModelClassification(12, 6, 2)
ColdClassification == ModelClassification(12, 6, 1)
ListRoleClassification == [EdgeClassification EXCEPT !.role_type = JArray]
NonNumericClassification ==
    [EdgeClassification EXCEPT !.score_fit = JStr("high")]

\* What the model service answers for one prompt.
ModelAnswers ==
    { [kind |-> "timeout"] }
    \cup { [kind |-> "text", text |-> <<JsonObject(c)>>] :
             c \in { EdgeClassification, ColdClassification,
                     ListRoleClassification, NonNumericClassification } }

\* dict.get(key, default)
dict_get(d, key, default) == IF key \in DOMAIN d THEN d[key] ELSE default

\* classify.py:327-331 and 418-439 read of a classification: the sum raises
\* TypeError unless the three scores are numbers; the lead row binds role_type
\* to a String column (database.py:98-161), which fails in the flush of the
\* commit at 438 unless it is a string.
ItemOf(classification) ==
    LET f == dict_get(classification, "score_fit", JNum(0))
        p == dict_get(classification, "score_pain", JNum(0))
        q == dict_get(classification, "score_data_quality", JNum(0))
        role_type == dict_get(classification, "role_type", JStr("unclear"))
    IN IF f.json # "number" \/ p.json # "number" \/ q.json # "number"
       THEN [kind |-> "classify_raises"]
       ELSE [kind |-> "classified", c |-> Classification(f.n, p.n, q.n),
             persist_raises |-> role_type.json # "string"]

BatchRequest(signal_text) == CacheRequest(signal_text, batch_icp_context)

\* A coroutine of the batch: waiting to enter classify_single, entered and not
\* yet at the cache lookup, suspended in the generate request, or done with the
\* classification it got and classify_single's result.
WaitingTask == [pc |-> "waiting", classification |-> {}, item |-> {}, result |-> {}]

DoneTask(classification) ==
    [ pc             |-> "done",
      classification |-> {classification},
      item           |-> {ItemOf(classification)},
      result         |-> {classify_single(ItemOf(classification))} ]

\* The coroutines inside classify_single.
InFlight == {i \in DOMAIN tasks : tasks[i].pc \in {"entered", "requested"}}

\* A batch request has arrived; nothing is cached, the lead table is empty.
InitBatch ==
    /\ leads = <<>>
    /\ score_overrides = <<>>
    /\ now = 0
    /\ settings \in {[enable_auto_park |-> TRUE, batch_enable_parallel |-> b] :
                       b \in BOOLEAN}
    /\ resp = Response("none", <<>>, 0, <<>>)
    /\ cache_manager = CacheManager("memory", {})
    /\ set_log = {}
    /\ last_call = NoCall
    /\ model_service \in [BatchTexts -> ModelAnswers]
    /\ signals \in [1..BatchSize -> BatchTexts]
    /\ tasks = [i \in 1..BatchSize |-> WaitingTask]
    /\ semaphore = batch_concurrency_limit
    /\ sweep_session = NoSession

\* Whether coroutine i may enter classify_single.  gather (classify.py:360-368)
\* starts the coroutines in order and asyncio.Semaphore serves its waiters in
\* order, so under gather i enters when its predecessors have entered and a
\* permit is left; in the loop (369-374) when its predecessors are done.
MayEnter(i) ==
    IF settings.batch_enable_parallel
    THEN /\ semaphore > 0
         /\ \A j \in 1..(i - 1) : tasks[j].pc # "waiting"
    ELSE \A j \in 1..(i - 1) : tasks[j].pc = "done"

\* A coroutine that enters without asking the semaphore.
enter_classify_NoSemaphore(i) ==
    /\ tasks[i].pc = "waiting"
    /\ \A j \in 1..(i - 1) : tasks[j].pc # "waiting"
    /\ tasks' = [tasks EXCEPT ![i].pc = "entered"]
    /\ semaphore' = IF settings.batch_enable_parallel
                    THEN semaphore - 1 ELSE semaphore
    /\ UNCHANGED <<leads, score_overrides, now, settings, resp, cache_manager,
                   set_log, last_call, model_service, sweep_session, signals>>

\* classify_with_semaphore acquires a permit and calls classify_single, which
\* calls ollama.classify_signal; that awaits the periodic health check
\* (ollama_wrapper.py:209-212, 234), a request to the model service when a
\* check is due, before it looks into the cache.
enter_classify(i) ==
    /\ tasks[i].pc = "waiting"
    /\ MayEnter(i)
    /\ tasks' = [tasks EXCEPT ![i].pc = "entered"]
    /\ semaphore' = IF settings.batch_enable_parallel
                    THEN semaphore - 1 ELSE semaphore
    /\ UNCHANGED <<leads, score_overrides, now, settings, resp, cache_manager,
                   set_log, last_call, model_service, sweep_session, signals>>

\* ollama_wrapper.py:236-263: the cache lookup, and on a usable cached result
\* the rest of classify_single and the release; otherwise the generate request
\* is sent.
lookup_classify(i) ==
    LET looked == ClientLookup(cache_manager, BatchRequest(signals[i]), TRUE, now, TRUE)
    IN /\ tasks[i].pc = "entered"
       /\ cache_manager' = looked.cm
       /\ IF looked.returns
          THEN /\ tasks' = [tasks EXCEPT ![i] =
                              DoneTask(CHOOSE v \in looked.cached_result : TRUE)]
               /\ semaphore' = IF settings.batch_enable_parallel
                               THEN semaphore + 1 ELSE semaphore
          ELSE /\ tasks' = [tasks EXCEPT ![i].pc = "requested"]
               /\ semaphore' = semaphore
       /\ UNCHANGED <<leads, score_overrides, now, settings, resp, set_log,
                      last_call, model_service, sweep_session, signals>>

\* A coroutine that leaves classify_single and keeps its permit.
finish_classify_KeepsPermit(i) ==
    LET done == ClientComplete(cache_manager, BatchRequest(signals[i]), TRUE,
                               model_service[signals[i]], now, TRUE)
    IN /\ tasks[i].pc = "requested"
       /\ cache_manager' = done.cm
       /\ tasks' = [tasks EXCEPT ![i] = DoneTask(done.result)]
       /\ semaphore' = semaphore
       /\ UNCHANGED <<leads, score_overrides, now, settings, resp, set_log,
                      last_call, model_service, sweep_session, signals>>

\* The generate request of coroutine i ends: ollama_wrapper.py:281-303, the
\* rest of classify_single, the release.
finish_classify(i) ==
    LET done == ClientComplete(cache_manager, BatchRequest(signals[i]), TRUE,
                               model_service[signals[i]], now, TRUE)
    IN /\ tasks[i].pc = "requested"
       /\ cache_manager' = done.cm
       /\ tasks' = [tasks EXCEPT ![i] = DoneTask(done.result)]
       /\ semaphore' = IF settings.batch_enable_parallel
                       THEN semaphore + 1 ELSE semaphore
       /\ UNCHANGED <<leads, score_overrides, now, settings, resp, set_log,
                      last_call, model_service, sweep_session, signals>>

TaskItems(ts) == [i \in DOMAIN ts |-> CHOOSE item \in ts[i].item : TRUE]
TaskResults(ts) == [i \in DOMAIN ts |-> CHOOSE result \in ts[i].result : TRUE]

\* classify.py:376-461 on the results of the coroutines ts, starting from the
\* lead table rows.
PersistBatch(ts, rows) ==
    CreateLeads(TaskItems(ts), TaskResults(ts), 1,
                [leads |-> rows, results |-> <<>>, created_leads |-> <<>>,
                 inactive |-> FALSE])

\* gather or the loop has every result: the persistence loop and the response.
\* The results as the loop rewrote them replace the coroutines' results.
respond_batch ==
    /\ resp.op = "none"
    /\ \A i \in DOMAIN tasks : tasks[i].pc = "done"
    /\ LET done == PersistBatch(tasks, leads)
       IN /\ leads' = done.leads
          /\ tasks' = [i \in DOMAIN tasks |->
                         [tasks[i] EXCEPT !.result = {done.results[i]}]]
          /\ resp' = Response("classify_signals_batch",
                              [signals |-> Len(signals)], 200,
                              BatchSummary(done.results, done.created_leads))
    /\ UNCHANGED <<score_overrides, now, settings, cache_manager, set_log,
                   last_call, model_service, sweep_session, signals, semaphore>>

\* classify.py:369-374 as one computation: the coroutines of sigs run one
\* after the other from index i on, each on the cache cm its predecessors left.
RECURSIVE classify_sequentially(_, _, _, _)
classify_sequentially(sigs, i, cm, ts) ==
    IF i > Len(sigs) THEN ts
    ELSE LET r      == BatchRequest(sigs[i])
             looked == ClientLookup(cm, r, TRUE, now, TRUE)
             done   == ClientComplete(looked.cm, r, TRUE, model_service[sigs[i]],
                                      now, TRUE)
         IN IF looked.returns
            THEN classify_sequentially(sigs, i + 1, looked.cm,
                     Append(ts, DoneTask(CHOOSE v \in looked.cached_result : TRUE)))
            ELSE classify_sequentially(sigs, i + 1, done.cm,
                     Append(ts, DoneTask(done.result)))

\* The summary the handler returns for sigs with batch_enable_parallel off,
\* from an empty cache and an empty lead table.
SequentialSummary(sigs) ==
    LET ts   == classify_sequentially(sigs, 1, CacheManager("memory", {}), <<>>)
        done == PersistBatch(ts, <<>>)
    IN BatchSummary(done.results, done.created_leads)

NextBatch ==
    \/ \E i \in 1..BatchSize : enter_classify(i)
    \/ \E i \in 1..BatchSize : lookup_classify(i)
    \/ \E i \in 1..BatchSize : finish_classify(i)
    \/ respond_batch

SpecBatch == InitBatch /\ [][NextBatch]_vars

\* While a step of the batch is possible one is taken: the event loop runs a
\* coroutine that is ready, the health check and the generate request end
\* within the timeout of the client (ollama_wrapper.py:265: the post returns
\* or raises), and the handler runs on once gather or the loop has its results.
BatchFairness == WF_vars(NextBatch)

\* Batches whose first signal is "A" and whose other signals share its cache
\* key or are "B".
FairSignals ==
    { sigs \in [1..BatchSize -> BatchTexts] :
        /\ sigs[1] = <<"A">>
        /\ \A i \in 2..BatchSize : sigs[i] \in {<<" ", "a">>, <<"B">>} }

\* Model services: what is answered for "A" and its variant, and for "B": a
\* timeout, a classification that makes classify_single raise, one that makes
\* the lead's commit raise, one above and one below the threshold.
FairServices ==
    { [t \in BatchTexts |-> IF t = <<"B">> THEN pair[2] ELSE pair[1]] :
        pair \in { <<[kind |-> "timeout"],
                     [kind |-> "text", text |-> <<JsonObject(NonNumericClassification)>>]>>,
                   <<[kind |-> "text", text |-> <<JsonObject(EdgeClassification)>>],
                     [kind |-> "text", text |-> <<JsonObject(ListRoleClassification)>>]>>,
                   <<[kind |-> "text", text |-> <<JsonObject(ColdClassification)>>],
                     [kind |-> "timeout"]>>,
                   <<[kind |-> "text", text |-> <<JsonObject(NonNumericClassification)>>],
                     [kind |-> "text", text |-> <<JsonObject(EdgeClassification)>>]>> } }

\* InitBatch with the batches and the model services above.
InitBatchFair ==
    /\ leads = <<>>
    /\ score_overrides = <<>>
    /\ now = 0
    /\ settings \in {[enable_auto_park |-> TRUE, batch_enable_parallel |-> b] :
                       b \in BOOLEAN}
    /\ resp = Response("none", <<>>, 0, <<>>)
    /\ cache_manager = CacheManager("memory", {})
    /\ set_log = {}
    /\ last_call = NoCall
    /\ model_service \in FairServices
    /\ signals \in FairSignals
    /\ tasks = [i \in 1..BatchSize |-> WaitingTask]
    /\ semaphore = batch_concurrency_limit
    /\ sweep_session = NoSession

SpecBatchFair == InitBatchFair /\ [][NextBatch]_vars /\ BatchFairness

\* ======================================================= scoring heuristics
\* ScoringHeuristics (scoring_heuristics.py) and the score statements of the
\* single-signal handler, as functions of what they read.  A signal is given by
\* what the detectors read of it: the length of its stripped text, whether the
\* text holds one of the boilerplate phrases, its post date and its company
\* name (None is {}).

\* str.lower() on the company names used here.
lower_name(name) ==
    CASE name = "Unknown" -> "unknown"
      [] name = "Acme" -> "acme"
      [] OTHER -> name

\* Post dates: none and two stale ones, 45 and 90 days before the clock starts.
PostDateInputs == {{}, {0 - 45}, {0 - 90}}

\* Company names: None, the empty string, a placeholder, two companies.
CompanyNameInputs == {{}, {""}, {"Unknown"}, {"Acme"}, {"globex"}}

ScoringSignals ==
    { [text_length |-> n, has_placeholder |-> b, post_date |-> d, company_name |-> c] :
        n \in {50, 100, 5001}, b \in BOOLEAN,
        d \in PostDateInputs, c \in CompanyNameInputs }

\* if company_name: None and "" are false.
\* The signals whose score is computed: an unremarkable text with no company
\* name or that of either company, and a text with every ghost-job indicator.
ScoredSignals ==
    { [text_length |-> 100, has_placeholder |-> FALSE, post_date |-> {},
       company_name |-> c] : c \in {{}, {"Acme"}, {"globex"}} }
    \cup { [text_length |-> 50, has_placeholder |-> TRUE, post_date |-> {0 - 90},
            company_name |-> {"Unknown"}] }

HasCompanyName(signal) == signal.company_name \notin {{}, {""}}

\* scoring_heuristics.py:171-173 without the min.
StalePenalty_Uncapped(post_date, t) ==
    IF post_date # {} /\ t - (CHOOSE d \in post_date : TRUE) > 30
    THEN t - (CHOOSE d \in post_date : TRUE) - 30
    ELSE 0

\* scoring_heuristics.py:170-175: the penalty for the age of the post.
StalePenalty(post_date, t) ==
    IF post_date # {} /\ t - (CHOOSE d \in post_date : TRUE) > 30
    THEN Min(t - (CHOOSE d \in post_date : TRUE) - 30, 20)
    ELSE 0

\* scoring_heuristics.py:177-180
NoCompanyPenalty(company_name) ==
    IF company_name \in {{}, {""}}
       \/ lower_name(CHOOSE c \in company_name : TRUE)
             \in {"unknown", "n/a", "confidential"}
    THEN 10 ELSE 0

\* scoring_heuristics.py:182-189
LengthPenalty(text_length) ==
    IF text_length < 100 THEN 5
    ELSE IF text_length > 5000 THEN 3
    ELSE 0

\* scoring_heuristics.py:191-201
PlaceholderPenalty(has_placeholder) == IF has_placeholder THEN 15 ELSE 0

\* ScoringHeuristics.detect_ghost_job (scoring_heuristics.py:147-219); reason
\* and confidence are left out.
detect_ghost_job(signal, t) ==
    LET total_penalty == StalePenalty(signal.post_date, t)
                         + NoCompanyPenalty(signal.company_name)
                         + LengthPenalty(signal.text_length)
                         + PlaceholderPenalty(signal.has_placeholder)
    IN [category |-> "ghost_job", adjustment |-> 0 - total_penalty]

\* A caller runs the ghost-job detector on a signal.
call_detect_ghost_job(signal) ==
    /\ last_call' = [op |-> "detect_ghost_job", signal |-> signal, at |-> now,
                     result |-> detect_ghost_job(signal, now)]
    /\ UNCHANGED <<leads, score_overrides, now, settings, resp, cache_manager,
                   set_log, model_service, sweep_session, signals, tasks, semaphore>>

\* Settings.funding_boost_days and Settings.funding_boost_score, read at
\* classify.py:164-167; config.py does not declare them, the deployment
\* supplies them.
funding_boost_days == 30
funding_boost_score == 10

\* The scoring weights main.py:65-71 hands to init_scoring_heuristics from
\* Settings.scoring_weight_*, which config.py does not declare: the default of
\* scoring_heuristics.py:135-139 and a deployment that doubles the fit weight.
ScoringWeightInputs ==
    { [icp_fit |-> 1, marketing_pain |-> 1, data_quality |-> 1],
      [icp_fit |-> 2, marketing_pain |-> 1, data_quality |-> 1] }

\* Table companies (database.py:35-56): ids are indices.
Companies == <<[name |-> "acme"], [name |-> "globex"]>>

\* Company.name.ilike(company_name) (classify.py:185-188): the company of the
\* signal, when the table has it.
CompanyOf(signal) ==
    IF ~HasCompanyName(signal) THEN {}
    ELSE { i \in DOMAIN Companies :
             lower_name(Companies[i].name)
                 = lower_name(CHOOSE c \in signal.company_name : TRUE) }

\* Table funding_events (database.py:175-189) as the handler finds it: empty,
\* a recent or an old event of company 1, a recent event of company 2, and a
\* recent event with no company.
FundingEvent(company_id, announced_date) ==
    [company_id |-> company_id, announced_date |-> announced_date]

FundingTables ==
    { {},
      {FundingEvent({1}, 0 - 10)},
      {FundingEvent({1}, 0 - 45)},
      {FundingEvent({2}, 0 - 10)},
      {FundingEvent({}, 0 - 10)} }

\* The adjustments of the five detectors that read the text only
\* (first marketer, tone, silver bullet, spam, industry) are inputs: none
\* fires, the first-marketer bonus at its maximum, a spam penalty.
Adjustment(category, adjustment) == [category |-> category, adjustment |-> adjustment]

TextAdjustments(first_marketer, spam) ==
    << Adjustment("first_marketer", first_marketer),
       Adjustment("tone_classification", 0),
       Adjustment("silver_bullet_seeker", 0),
       Adjustment("spam_detection", spam),
       Adjustment("industry_specific", 0) >>

TextAdjustmentInputs ==
    { TextAdjustments(0, 0), TextAdjustments(15, 0), TextAdjustments(0, 0 - 30) }

\* Classifications scored here: low, at the prefilter threshold, high, and one
\* whose scores add up to more than 100.
ScoredClassifications ==
    { Classification(10, 5, 2), Classification(12, 6, 2),
      Classification(40, 30, 8), Classification(90, 40, 10) }

RECURSIVE SumAdjustments(_)
SumAdjustments(adjustments) ==
    IF adjustments = <<>> THEN 0
    ELSE Head(adjustments).adjustment + SumAdjustments(Tail(adjustments))

\* ScoringHeuristics.apply_all_heuristics (scoring_heuristics.py:402-437)
apply_all_heuristics(signal, text_adjustments, t) ==
    LET adjustments == <<detect_ghost_job(signal, t)>> \o text_adjustments
    IN [total_adjustment |-> SumAdjustments(adjustments), adjustments |-> adjustments]

\* ScoringHeuristics.explain_score (scoring_heuristics.py:439-492)
explain_score(base_scores, adjustments, scoring_weights) ==
    LET weighted_base ==
            [ icp_fit        |-> base_scores.score_fit * scoring_weights.icp_fit,
              marketing_pain |-> base_scores.score_pain * scoring_weights.marketing_pain,
              data_quality   |-> base_scores.score_data_quality
                                    * scoring_weights.data_quality ]
        weighted_total == weighted_base.icp_fit + weighted_base.marketing_pain
                          + weighted_base.data_quality
        adjustment_total == SumAdjustments(adjustments)
        final_total == weighted_total + adjustment_total
    IN [ base_scores          |-> base_scores,
         scoring_weights      |-> scoring_weights,
         weighted_base_scores |-> weighted_base,
         base_total           |-> weighted_total,
         adjustments          |-> adjustments,
         adjustment_total     |-> adjustment_total,
         final_score          |-> final_total,
         score_bucket         |-> compute_score_bucket(final_total) ]

\* classify.py:161-165: the funding events the query of the handler returns.
recent_funding(signal, funding_events, t) ==
    IF ~HasCompanyName(signal) THEN {}
    ELSE { e \in funding_events :
             /\ e.company_id # {}
             /\ e.announced_date >= t - funding_boost_days }

\* classify.py:116-180: the score statements of POST /signal as a function of
\* the classification, the signal, the funding table and the configuration.
\* s is the Settings record with enable_scoring_heuristics and the weights the
\* ScoringHeuristics singleton was built with.
score_signal(signal, c, text_adjustments, funding_events, s, t) ==
    LET applied == IF s.enable_scoring_heuristics
                   THEN apply_all_heuristics(signal, text_adjustments, t)
                   ELSE [total_adjustment |-> 0, adjustments |-> <<>>]
        score_explanation ==
            IF s.enable_scoring_heuristics
            THEN {explain_score(c, applied.adjustments, s.scoring_weights)}
            ELSE {}
        funded == recent_funding(signal, funding_events, t) # {}
        funding_bonus == IF funded THEN funding_boost_score ELSE 0
        total_score ==
            clamp_score(raw_total_score(c, applied.total_adjustment, funding_bonus))
    IN [ base_total            |-> base_total(c),
         total_adjustment      |-> applied.total_adjustment,
         funding_bonus         |-> funding_bonus,
         total_score           |-> total_score,
         score_bucket          |-> compute_score_bucket(total_score),
         heuristic_adjustments |->
             IF funded
             THEN Append(applied.adjustments,
                         Adjustment("funding_event", funding_boost_score))
             ELSE applied.adjustments,
         score_explanation     |-> score_explanation ]

\* A signal is scored.
call_score_signal(signal, c, text_adjustments, funding_events) ==
    /\ last_call' = [op |-> "score_signal", signal |-> signal, c |-> c,
                     funding_events |-> funding_events, at |-> now,
                     result |-> score_signal(signal, c, text_adjustments,
                                             funding_events, settings, now)]
    /\ UNCHANGED <<leads, score_overrides, now, settings, resp, cache_manager,
                   set_log, model_service, sweep_session, signals, tasks, semaphore>>

\* The scoring singleton is built from the configuration; nothing is scored yet.
InitScoring ==
    /\ leads = <<>>
    /\ score_overrides = <<>>
    /\ now = 0
    /\ settings \in { [enable_auto_park |-> TRUE, enable_scoring_heuristics |-> b,
                       scoring_weights |-> w] :
                        b \in BOOLEAN, w \in ScoringWeightInputs }
    /\ resp = Response("none", <<>>, 0, <<>>)
    /\ cache_manager = CacheManager("memory", {})
    /\ set_log = {}
    /\ last_call = NoCall
    /\ model_service = <<>>
    /\ signals = <<>>
    /\ tasks = <<>>
    /\ semaphore = 0
    /\ sweep_session = NoSession

NextScoring ==
    \/ Tick
    \/ \E signal \in ScoringSignals : call_detect_ghost_job(signal)
    \/ \E signal \in ScoredSignals, c \in ScoredClassifications,
          text_adjustments \in TextAdjustmentInputs, funding_events \in FundingTables :
          call_score_signal(signal, c, text_adjustments, funding_events)

SpecScoring == InitScoring /\ [][NextScoring]_vars

\* ============================================== lead lifecycle, concurrent
\* The requests that write a lead, with the sweep split at the point where
\* another request can run.  The sweeps, the override, the batch persistence
\* and the dossier write-back are coroutines with no await between their first
\* query and their commit: the event loop runs each of them to the commit
\* before it runs another.  update_lead_status and update_lead_notes are plain
\* functions (leads.py:105-131), which the server runs on worker threads: each
\* commits in one step of its own, also between the query and the commit of a
\* sweep.  Every request has its own Session (dependencies.py:19-28,
\* scheduled_tasks.py:187); no query locks a row (no with_for_update) and no
\* row carries a version counter.

\* Notes a caller sends.
NotesInputs == {<<"call back">>}

\* leads.py:127-128
NotesRow(lead, notes, t) == [lead EXCEPT !.notes = notes, !.updated_at = t]

\* PATCH /{lead_id}/notes (leads.py:121-131)
update_lead_notes(lead_id, notes) ==
    /\ IF lead_id \notin LeadIds
       THEN /\ resp' = Response("update_lead_notes",
                                [lead_id |-> lead_id, notes |-> notes], 404,
                                [detail |-> "Lead not found"])
            /\ UNCHANGED leads
       ELSE /\ leads' = [leads EXCEPT ![lead_id] = NotesRow(@, notes, now)]
            /\ resp' = Response("update_lead_notes",
                                [lead_id |-> lead_id, notes |-> notes], 200,
                                [status |-> "ok"])
    /\ UNCHANGED <<pipeline_vars, score_overrides, now, settings>>

\* classify.py:77-81: the narrative fields of the dossier, taken as one.
DossierRow(lead, t) == [lead EXCEPT !.context_dossier = {"dossier"}, !.updated_at = t]

\* generate_dossier_async (classify.py:58-84) from the return of the model on:
\* the write-back of the background task POST /signal queues (classify.py:
\* 265-271).  It sends no response.
generate_dossier_async(lead_id) ==
    /\ ~sweep_session.open
    /\ leads' = IF lead_id \in LeadIds
                THEN [leads EXCEPT ![lead_id] = DossierRow(@, now)]
                ELSE leads
    /\ UNCHANGED <<pipeline_vars, score_overrides, now, settings, resp>>

\* classify.py:703-719 / scheduled_tasks.py:180-197: the sweep up to the end of
\* its query.  The Session holds the rows the query loaded.
sweep_query(op) ==
    /\ ~sweep_session.open
    /\ settings.enable_auto_park
    /\ sweep_session' = [ open        |-> TRUE,
                          op          |-> op,
                          cutoff_date |-> now - auto_park_days,
                          selected    |-> leads_to_park(now),
                          rows        |-> leads ]
    /\ UNCHANGED <<leads, score_overrides, now, settings, resp, cache_manager,
                   set_log, last_call, model_service, signals, tasks, semaphore>>

\* The UPDATE the flush of the sweep's commit sends for a loaded row: the
\* attributes the loop assigned (classify.py:740-742), among them notes
\* computed from the notes as loaded, and updated_at; WHERE names the id only.
CommitRow(current, loaded, t) ==
    [current EXCEPT !.status = "parked",
                    !.auto_parked_at = {t},
                    !.notes = Append(loaded.notes, "auto_parked"),
                    !.updated_at = t]

\* classify.py:737-754 / scheduled_tasks.py:199-216: the loop, the commit and
\* the response.
sweep_commit ==
    /\ sweep_session.open
    /\ leads' = [i \in LeadIds |->
                   IF i \in sweep_session.selected
                   THEN CommitRow(leads[i], sweep_session.rows[i], now)
                   ELSE leads[i]]
    /\ resp' = IF sweep_session.op = "auto_park_old_leads"
               THEN Response("auto_park_old_leads", [dry_run |-> FALSE], 200,
                             [parked_count |-> Cardinality(sweep_session.selected),
                              cutoff_date |-> sweep_session.cutoff_date,
                              auto_park_days |-> auto_park_days])
               ELSE Response("scheduled_auto_park_leads", <<>>, 200,
                             [parked_count |-> Cardinality(sweep_session.selected),
                              cutoff_date |-> sweep_session.cutoff_date,
                              auto_park_days |-> auto_park_days,
                              timestamp |-> now])
    /\ sweep_session' = NoSession
    /\ UNCHANGED <<score_overrides, now, settings, cache_manager, set_log,
                   last_call, model_service, signals, tasks, semaphore>>

\* The batch that creates one lead: one signal, classified above the prefilter
\* threshold and persisted.
OneLeadBatch ==
    <<[kind |-> "classified", c |-> Classification(40, 30, 8), persist_raises |-> FALSE]>>

\* Statuses and the override score callers send here.
LifecycleStatusInputs == {"new", "contacted"}
LifecycleScoreInputs == {55}

NextLifecycle ==
    \/ Tick
    \/ ~sweep_session.open /\ classify_signals_batch(OneLeadBatch)
    \/ \E id \in LeadIds, s \in LifecycleScoreInputs, r \in ReasonInputs :
          ~sweep_session.open /\ override_lead_score(id, s, r)
    \/ \E id \in LeadIds : generate_dossier_async(id)
    \/ \E id \in LeadIds, st \in LifecycleStatusInputs : update_lead_status(id, st)
    \/ \E id \in LeadIds, notes \in NotesInputs : update_lead_notes(id, notes)
    \/ \E op \in {"auto_park_old_leads", "scheduled_auto_park_leads"} : sweep_query(op)
    \/ sweep_commit

SpecLifecycle == Init /\ [][NextLifecycle]_vars

\* ------------------------------------------------------------------ claims
\* The bucket of a score as the data model states it: red_hot from 80, warm
\* from 60, nurture from 40, parked below.
BucketOf(score) ==
    CASE score >= 80 -> "red_hot"
      [] score >= 60 /\ score < 80 -> "warm"
      [] score >= 40 /\ score < 60 -> "nurture"
      [] score < 40 -> "parked"

\* C1: every persisted lead's total_score lies in [0, 100], whatever
\* classifications and overrides came before.
C1_TotalScoreInRange ==
    \A i \in LeadIds : leads[i].total_score >= 0 /\ leads[i].total_score <= 100

\* C2: every lead's score_bucket is the bucket of its current total_score.
C2_BucketMatchesScore ==
    \A i \in LeadIds : leads[i].score_bucket = BucketOf(leads[i].total_score)

\* A lead that was swept to parked and then overridden, next to a lead whose
\* status was changed by hand.
C2_Witness ==
    \E i, j \in LeadIds :
        /\ leads[i].auto_parked_at # {}
        /\ leads[i].manual_score_override # {}
        /\ leads[i].total_score # base_total(Classification(leads[i].score_icp_fit,
                                      leads[i].score_marketing_pain,
                                      leads[i].score_data_quality))
        /\ leads[j].status = "contacted"

\* C3: a single-signal request answers with the final score
\* max(0, min(100, base total + adjustment total + funding bonus)) and its
\* bucket.
C3_SingleSignalFinalScore ==
    resp.op = "classify_signal" =>
        /\ resp.code = 200
        /\ resp.body.total_score =
               Max(0, Min(100, base_total(resp.req.classification)
                                 + resp.req.total_adjustment
                                 + resp.req.funding_bonus))
        /\ resp.body.score_bucket = BucketOf(resp.body.total_score)

\* C4: right after a successful override with value s the lead has
\* total_score = s, manual_score_override = s and score_bucket = bucket(s).
C4_OverrideTakesEffect ==
    (resp.op = "override_lead_score" /\ resp.code = 200) =>
        LET lead == leads[resp.req.lead_id]
            s    == resp.req.override_score
        IN /\ lead.total_score = s
           /\ lead.manual_score_override = {s}
           /\ lead.score_bucket = BucketOf(s)

\* The second override of one lead, to 55, over an earlier override to 150.
C4_Witness ==
    /\ resp.op = "override_lead_score"
    /\ resp.code = 200
    /\ resp.req.override_score = 55
    /\ resp.body.original_score = 150
    /\ leads[resp.req.lead_id].score_bucket = "nurture"

\* In a lead's history (newest first) every record's original_score is the
\* override_score of the record made just before it.
C5_HistoryChained ==
    \A id \in LeadIds :
        LET h == get_score_history(id)
        IN \A k \in 1..(Len(h) - 1) : h[k].original_score = h[k + 1].override_score

\* A step keeps every audit record as it is; a successful override adds one
\* record at the end, any other step adds none.
C5_AppendOnly ==
    /\ Len(score_overrides') >= Len(score_overrides)
    /\ SubSeq(score_overrides', 1, Len(score_overrides)) = score_overrides
    /\ IF now' = now /\ resp'.op = "override_lead_score" /\ resp'.code = 200
       THEN /\ Len(score_overrides') = Len(score_overrides) + 1
            /\ LET r == score_overrides'[Len(score_overrides')]
               IN /\ r.lead_id = resp'.req.lead_id
                  /\ r.original_score = leads[resp'.req.lead_id].total_score
                  /\ r.override_score = resp'.req.override_score
       ELSE score_overrides' = score_overrides

\* C5: a successful override appends exactly one audit record, holding the
\* lead's total_score from before the call and the requested value; records
\* are never changed or removed; in a lead's history every record's
\* original_score is the override_score of the record made just before it.
C5_OverrideAudit == [][C5_AppendOnly]_vars /\ []C5_HistoryChained

\* Two records for one lead, the second made from a different score than the
\* one the lead was classified with.
C5_Witness ==
    \E id \in LeadIds :
        /\ Len(get_score_history(id)) = 2
        /\ get_score_history(id)[1].override_score
               # get_score_history(id)[2].override_score
        /\ resp.op = "override_lead_score"
        /\ resp.code = 200

\* One request step: the checks of a rejected lifecycle request.
C6_Rejection ==
    now' = now =>
        /\ (resp'.op \in {"update_lead_status", "override_lead_score"}
              /\ resp'.req.lead_id \notin LeadIds) => resp'.code = 404
        /\ (resp'.op = "update_lead_status"
              /\ resp'.req.lead_id \in LeadIds
              /\ resp'.req.status \notin VALID_STATUSES) => resp'.code = 400
        /\ resp'.code \in {400, 404} =>
              (leads' = leads /\ score_overrides' = score_overrides)

\* C6: a status update to a string outside the enum answers 400, a status
\* update or a score override for an unknown lead id answers 404, and a request
\* answered 400 or 404 changes no lead and adds no audit record.
C6_RejectedLeavesState == [][C6_Rejection]_vars

\* A status outside the enum was just refused for an existing lead that has
\* been overridden before.
C6_Witness ==
    /\ resp.op = "update_lead_status"
    /\ resp.code = 400
    /\ resp.req.lead_id \in LeadIds
    /\ leads[resp.req.lead_id].manual_score_override # {}
    /\ leads[resp.req.lead_id].status \in VALID_STATUSES

\* The lifecycle graph of the design.
LifecycleEdges ==
    { <<"new", "contacted">>, <<"contacted", "qualified">>,
      <<"qualified", "pitched">>, <<"pitched", "trial">>,
      <<"trial", "won">>, <<"trial", "lost">> }
    \cup { <<s, "parked">> : s \in VALID_STATUSES \ {"won", "lost", "parked"} }

\* C7: a lead's status changes only along the lifecycle graph: one step
\* forward on new, contacted, qualified, pitched, trial, {won, lost}, or to
\* parked from a status that is not terminal; won and lost never change.
C7_LifecycleGraph ==
    [][\A i \in LeadIds :
          leads'[i].status # leads[i].status =>
              <<leads[i].status, leads'[i].status>> \in LifecycleEdges]_vars

\* A response of a sweep that was not a dry run (and not switched off).
IsSweepResponse(r) ==
    /\ r.op \in {"auto_park_old_leads", "scheduled_auto_park_leads"}
    /\ "parked_count" \in DOMAIN r.body

\* One step: a sweep that follows a sweep at the same clock value.
C8_SecondSweep ==
    ( /\ IsSweepResponse(resp)
      /\ resp.body.cutoff_date = now - auto_park_days
      /\ now' = now
      /\ IsSweepResponse(resp') )
    => (leads' = leads /\ resp'.body.parked_count = 0)

\* C8: a sweep run right after a sweep, at the same clock value and with no
\* request in between, parks nothing: it reports parked_count 0 and leaves
\* every lead as the first run left it.
C8_SweepIdempotent == [][C8_SecondSweep]_vars

\* The second of two sweeps at one clock value, the first of which parked a
\* lead: the lead carries this clock value as auto_parked_at and the response
\* reports 0.
C8_Witness ==
    /\ IsSweepResponse(resp)
    /\ resp.body.cutoff_date = now - auto_park_days
    /\ resp.body.parked_count = 0
    /\ \E i \in LeadIds : leads[i].auto_parked_at = {now} /\ leads[i].status = "parked"

\* The response of a dry run.
IsDryRunResponse(r) ==
    /\ r.op = "auto_park_old_leads"
    /\ "leads" \in DOMAIN r.body

\* One step: a dry run, or a sweep that follows a dry run at the same clock
\* value (the report's days_old dates it).
C9_DryRunStep ==
    /\ (now' = now /\ IsDryRunResponse(resp')) =>
          /\ leads' = leads
          /\ score_overrides' = score_overrides
          /\ {e.id : e \in resp'.body.leads}
                = {i \in LeadIds : ParkAll(leads_to_park(now), now)[i] # leads[i]}
          /\ resp'.body.leads_to_park = Cardinality(resp'.body.leads)
    /\ ( /\ IsDryRunResponse(resp)
         /\ resp.body.leads # {}
         /\ \A e \in resp.body.leads : e.days_old = now - e.created_at
         /\ now' = now
         /\ IsSweepResponse(resp') ) =>
          /\ {e.id : e \in resp.body.leads}
                = {i \in LeadIds : leads'[i] # leads[i]}
          /\ \A e \in resp.body.leads :
                leads'[e.id].status = "parked" /\ leads'[e.id].auto_parked_at = {now}
          /\ resp'.body.parked_count = resp.body.leads_to_park

\* C9: a dry run changes no row, and it reports exactly the leads that a sweep
\* from the same state parks: the rows a sweep would rewrite, and the rows a
\* sweep that follows the dry run at once does rewrite.
C9_DryRunFaithful == [][C9_DryRunStep]_vars

\* A dry run that has just reported a stale lead, which is still new and not
\* parked, while another lead is not a candidate.
C9_Witness ==
    /\ IsDryRunResponse(resp)
    /\ resp.body.leads_to_park = 1
    /\ \A e \in resp.body.leads :
          leads[e.id].status = "new" /\ leads[e.id].auto_parked_at = {}
    /\ Len(leads) = 2

\* C10: the summary of a batch satisfies
\* created_leads + filtered + errors = count = number of input signals.
C10_BatchAccounting ==
    resp.op = "classify_signals_batch" =>
        /\ resp.body.created_leads + resp.body.filtered + resp.body.errors
               = resp.body.count
        /\ resp.body.count = resp.req.signals

\* A batch of two in which one item made a lead and the other ended in error.
C10_Witness ==
    /\ resp.op = "classify_signals_batch"
    /\ resp.body.count = 2
    /\ resp.body.created_leads = 1
    /\ resp.body.errors = 1

\* The last call was a get for a key whose last set, still in force, expires
\* after the get: the key was set and the get came before its TTL was over.
GetAfterSet(e) ==
    /\ last_call.op = "get"
    /\ e.key = last_call.key
    /\ last_call.at < e.expires_at

\* The get reached its backend: the memory store, or a Redis server that
\* answered.
Reached == cache_manager.backend = "memory" \/ last_call.reached

\* C16 as stated: after a successful set for a triple, every get for it made
\* before the entry's TTL expires (and answered by the backend) returns exactly
\* the stored value, whatever get and set operations on other keys happen in
\* between.
C16_GetReturnsStored ==
    \A e \in set_log : (GetAfterSet(e) /\ Reached) => last_call.result = {e.value}

\* C16: after a successful set for a triple, a get for it made before the
\* entry's TTL expires returns the stored value or a miss, never another value;
\* it returns the stored value unless a later set, made while the memory store
\* held max_size entries, evicted the entry, or the Redis server did not answer
\* the get.
C16_GetReturnsStoredUnlessEvicted ==
    \A e \in set_log :
        GetAfterSet(e) =>
            /\ last_call.result \subseteq {e.value}
            /\ (~e.evicted /\ Reached) => last_call.result = {e.value}

\* A hit on a key while another key has been set since and is still recorded.
C16_Witness ==
    \E e \in set_log :
        /\ GetAfterSet(e)
        /\ last_call.result = {e.value}
        /\ \E o \in set_log : o.key # e.key

\* The memory store never holds more than max_size entries.
C17_Bounded == Len(cache_manager.memory_cache) <= max_size

\* One step that changes the memory store by a set: at the bound the first
\* entry of the dict (the oldest-inserted) and no other goes before the key is
\* assigned; below the bound no entry goes.
C17_SetStep ==
    (/\ last_call'.op = "set"
     /\ cache_manager'.memory_cache # cache_manager.memory_cache)
    => LET before == cache_manager.memory_cache
           kept   == IF Len(before) >= max_size
                     THEN MemoryKeys(cache_manager) \ {Head(before).key}
                     ELSE MemoryKeys(cache_manager)
       IN /\ MemoryKeys(cache_manager') = kept \cup {last_call'.key}
          /\ \A i \in DOMAIN before :
                (before[i].key \in kept /\ before[i].key # last_call'.key)
                => \E j \in DOMAIN cache_manager'.memory_cache :
                      cache_manager'.memory_cache[j] = before[i]

C18_ExpiredGet ==
    (/\ cache_manager.backend = "memory"
     /\ last_call'.op = "get"
     /\ cache_manager' # cache_manager
     /\ \E e \in StoredEntries(cache_manager, last_call'.key, now) :
           now >= e.expires_at)
    => /\ last_call'.result = {}
       /\ last_call'.key \notin MemoryKeys(cache_manager')

\* A get made when the TTL of the key's last set is over is a miss.
C18_MissPastExpiry ==
    \A e \in set_log :
        (/\ last_call.op = "get"
         /\ e.key = last_call.key
         /\ last_call.at >= e.expires_at)
        => last_call.result = {}

\* C18: a get for a key whose entry's expiry time has passed returns a miss and
\* removes the entry from the memory store; every later get for the key is a
\* miss until a new set for it.
C18_ExpiredIsMiss == [][C18_ExpiredGet]_vars /\ []C18_MissPastExpiry

\* A get on the memory backend past the expiry of the key's last set: a miss,
\* and the key is gone from the store.
C18_Witness ==
    /\ cache_manager.backend = "memory"
    /\ last_call.op = "get"
    /\ last_call.result = {}
    /\ last_call.key \notin MemoryKeys(cache_manager)
    /\ \E e \in set_log : e.key = last_call.key /\ last_call.at >= e.expires_at

\* One step of the cache: the counters never decrease, a get adds one to
\* exactly one of them, and no other call changes them.
C19_CounterStep ==
    /\ cache_manager'.hits >= cache_manager.hits
    /\ cache_manager'.misses >= cache_manager.misses
    /\ IF last_call'.op = "get" /\ cache_manager' # cache_manager
       THEN cache_manager'.hits + cache_manager'.misses
               = cache_manager.hits + cache_manager.misses + 1
       ELSE /\ cache_manager'.hits = cache_manager.hits
            /\ cache_manager'.misses = cache_manager.misses

\* C19: hits and misses never decrease and every get increases exactly one of
\* them by exactly one, on both backends and also when the get fails
\* internally; set, invalidate and clear_all leave both unchanged.
C19_CountersCountGets == [][C19_CounterStep]_vars

\* A response text that cannot be parsed: it is not one JSON object with
\* nothing but brace-free text around it.
CannotBeParsed(text) ==
    ~ \E i \in DOMAIN text :
          /\ text[i].t = "object"
          /\ \A j \in DOMAIN text \ {i} : text[j].t = "chat"

\* The model request of the last client call failed: timeout, non-success
\* status or a response text that cannot be parsed.
ModelRequestFailed ==
    /\ last_call.op = "classify_signal"
    /\ last_call.requests = 1
    /\ \/ last_call.response.kind \in {"timeout", "http_error"}
       \/ /\ last_call.response.kind = "text"
          /\ CannotBeParsed(last_call.response.text)

\* C15: the model client's classify_signal never raises to its caller, and
\* when its model request ends in a non-success status, a timeout or a
\* response that cannot be parsed it returns the default classification: the
\* three scores 0 and icp_match false.
C15_FailOpen ==
    /\ last_call.op = "classify_signal" => ~last_call.raised
    /\ ModelRequestFailed =>
          /\ last_call.result = default_classification
          /\ last_call.result.score_fit = JNum(0)
          /\ last_call.result.score_pain = JNum(0)
          /\ last_call.result.score_data_quality = JNum(0)
          /\ last_call.result.icp_match = JBool(FALSE)

\* A call whose response text had a brace and no JSON object.
C15_Witness ==
    /\ ModelRequestFailed
    /\ last_call.response.kind = "text"
    /\ \E i \in DOMAIN last_call.response.text : last_call.response.text[i].t = "{"
    /\ last_call.result = default_classification

\* The values a get for cache_key is served at time t: the memory entry not
\* yet expired, or the decoded Redis string.
CachedValues(cm, cache_key, t) ==
    IF cm.backend = "redis"
    THEN {json_loads(e.payload) :
             e \in {x \in StoredEntries(cm, cache_key, t) : JsonDecodable(x.payload)}}
    ELSE {e.value : e \in {x \in StoredEntries(cm, cache_key, t) : t < x.expires_at}}

\* One call of the client: with use_cache, a value still cached for the inputs
\* (and a backend that answers) is returned and no generate request is sent;
\* without use_cache the cache manager is left as it was.
C20_ClientStep ==
    (last_call'.op = "classify_signal" /\ now' = now /\ last_call' # last_call)
    => /\ \A v \in CachedValues(cache_manager, last_call'.key, now) :
             (last_call'.use_cache
              /\ (cache_manager.backend = "redis" => last_call'.reached))
             => (last_call'.requests = 0 /\ last_call'.result = v)
       /\ ~last_call'.use_cache => cache_manager' = cache_manager

\* C20: with caching enabled, once classify_signal has returned a
\* classification obtained from the model for given inputs, a later call with
\* the same inputs made while the entry is still cached returns the same value
\* and sends no generate request; a call with use_cache = false neither reads
\* nor writes the cache.
C20_CachedIsReused == [][C20_ClientStep]_vars

\* No request of the client is served the default classification from the
\* cache.
C29_DefaultNotStored ==
    \A r \in ClientRequests :
        default_classification \notin CachedValues(cache_manager, KeyOf(r), now)

\* One step: the client call that follows, for the same inputs and with the
\* cache in use, a call whose model request failed.
C29_FailureStep ==
    ( /\ ModelRequestFailed
      /\ last_call.use_cache
      /\ now' = now
      /\ last_call'.op = "classify_signal"
      /\ last_call'.key = last_call.key
      /\ last_call'.use_cache )
    => last_call'.requests = 1

\* C29: classify_signal stores in the cache only classifications parsed from
\* the model's response, never the fail-open default: the call that follows a
\* failed or unparseable response for the same inputs misses the cache and
\* sends a generate request again.
C29_DefaultNeverCached == []C29_DefaultNotStored /\ [][C29_FailureStep]_vars

\* ---- batch pipeline
BatchResponded == resp.op = "classify_signals_batch"

\* The item and the result of coroutine i; after the response the result is
\* the one the persistence loop left.
TaskItem(i) == CHOOSE item \in tasks[i].item : TRUE
TaskResult(i) == CHOOSE result \in tasks[i].result : TRUE

\* C12: during a parallel batch the number of coroutines inside
\* classify_single never exceeds batch_concurrency_limit, the semaphore's
\* initial value, and the permits left are the limit less that number.
C12_InFlightBounded ==
    settings.batch_enable_parallel =>
        /\ Cardinality(InFlight) <= batch_concurrency_limit
        /\ semaphore = batch_concurrency_limit - Cardinality(InFlight)

\* Every permit is taken and a coroutine is still waiting to start.
C12_Witness ==
    /\ settings.batch_enable_parallel
    /\ Cardinality(InFlight) = batch_concurrency_limit
    /\ \E i \in DOMAIN tasks : tasks[i].pc = "waiting"

\* Item i was classified without raising and its base total is below the
\* prefilter threshold.
BelowThreshold(i) ==
    /\ TaskItem(i).kind = "classified"
    /\ base_total(TaskItem(i).c) < prefilter_score_threshold

\* Item i was classified without raising, its base total is at or above the
\* threshold, and the persistence loop did not raise on it.
PassedWithoutRaising(i) ==
    /\ TaskItem(i).kind = "classified"
    /\ base_total(TaskItem(i).c) >= prefilter_score_threshold
    /\ TaskResult(i).status # "error"

\* C14: a batch item is marked filtered exactly when its base total is
\* strictly below prefilter_score_threshold, and no lead is persisted for a
\* filtered item; an item at or above the threshold whose processing does not
\* raise gets exactly one lead, its own, and the lead table holds no other row.
C14_PrefilterThreshold ==
    /\ ~BatchResponded =>
          /\ leads = <<>>
          /\ \A i \in DOMAIN tasks :
                tasks[i].pc = "done" =>
                    (TaskResult(i).status = "filtered" <=> BelowThreshold(i))
    /\ BatchResponded =>
          /\ \A i \in DOMAIN tasks :
                /\ TaskResult(i).status = "filtered" <=> BelowThreshold(i)
                /\ TaskResult(i).status = "filtered" => TaskResult(i).lead_id = {}
                /\ PassedWithoutRaising(i) =>
                      \E id \in DOMAIN leads :
                          /\ TaskResult(i).lead_id = {id}
                          /\ leads[id].total_score = base_total(TaskItem(i).c)
                          /\ \A j \in DOMAIN tasks \ {i} :
                                TaskResult(j).lead_id # {id}
          /\ Len(leads) =
                Cardinality({i \in DOMAIN tasks : TaskResult(i).lead_id # {}})

\* A batch has responded with an item one below the threshold filtered and an
\* item exactly at the threshold given a lead.
C14_Witness ==
    /\ BatchResponded
    /\ \E i, j \in DOMAIN tasks :
          /\ TaskItem(i).kind = "classified"
          /\ base_total(TaskItem(i).c) = prefilter_score_threshold - 1
          /\ TaskResult(i).status = "filtered"
          /\ PassedWithoutRaising(j)
          /\ base_total(TaskItem(j).c) = prefilter_score_threshold
          /\ TaskResult(j).lead_id # {}

\* C11: a batch run in parallel returns the created, filtered and error counts
\* the sequential run of the same batch returns.
C11_ParallelEqualsSequential ==
    (BatchResponded /\ settings.batch_enable_parallel) =>
        LET sequential == SequentialSummary(signals)
        IN /\ resp.body.created_leads = sequential.created_leads
           /\ resp.body.filtered = sequential.filtered
           /\ resp.body.errors = sequential.errors

\* Item i raises by itself: in classify_single, or in a statement of its own
\* lead persistence.
RaisesItself(i) ==
    \/ TaskItem(i).kind = "classify_raises"
    \/ /\ TaskItem(i).kind = "classified"
       /\ base_total(TaskItem(i).c) >= prefilter_score_threshold
       /\ TaskItem(i).persist_raises

\* C13: in a batch an item whose processing raises is reported with status
\* error and an error message, every other item keeps the status and the lead
\* creation it would have had without the failing item, and the response
\* covers every item.
C13_FailureIsIsolated ==
    BatchResponded =>
        /\ resp.code = 200
        /\ resp.body.count = Len(signals)
        /\ \A i \in DOMAIN tasks :
              IF RaisesItself(i)
              THEN /\ TaskResult(i).status = "error"
                   /\ TaskResult(i).error # {}
              ELSE /\ TaskResult(i).status = classify_single(TaskItem(i)).status
                   /\ TaskResult(i).status = "ok" => TaskResult(i).lead_id # {}

\* The response is the summary of the whole batch, and every permit is back.
StructuredSummary ==
    /\ BatchResponded
    /\ resp.code = 200
    /\ resp.body.count = Len(signals)
    /\ resp.body.created_leads + resp.body.filtered + resp.body.errors <= Len(signals)
    /\ \A i \in DOMAIN tasks : tasks[i].pc = "done"
    /\ semaphore = batch_concurrency_limit

\* C28: under fair scheduling, with every model call returning, failing or
\* timing out, every batch call ends with the structured summary; every item
\* that waits for a permit gets one and completes, and every permit taken has
\* been given back by then, also for the items that failed.
C28_BatchTerminates ==
    /\ <>StructuredSummary
    /\ \A i \in 1..BatchSize :
          (tasks[i].pc = "waiting") ~> (tasks[i].pc = "done")
    /\ [](BatchResponded => StructuredSummary)

\* A parallel batch has answered although a model call timed out and an item
\* raised: the summary counts the errors and the semaphore is full again.
C28_Witness ==
    /\ StructuredSummary
    /\ settings.batch_enable_parallel
    /\ resp.body.errors > 0
    /\ \E i \in DOMAIN tasks : model_service[signals[i]].kind = "timeout"
    /\ \E i \in DOMAIN tasks : TaskItem(i).kind = "classify_raises"

\* ---- scoring heuristics
\* C23 as stated: the ghost-job detector's adjustment is never below -20,
\* however many indicators are present together.
C23_PenaltyCappedAt20 ==
    last_call.op = "detect_ghost_job" => last_call.result.adjustment >= 0 - 20

\* C23 as amended: the penalty for a stale post date is capped at 20 and the
\* penalties of the indicators add up, so the adjustment is the negated sum of
\* at most 20, 10, 5 and 15 and never below -50; with the stale date as the
\* only indicator it is never below -20.
C23_StalePartCappedAt20 ==
    last_call.op = "detect_ghost_job" =>
        LET signal == last_call.signal
            others == NoCompanyPenalty(signal.company_name)
                      + LengthPenalty(signal.text_length)
                      + PlaceholderPenalty(signal.has_placeholder)
        IN /\ last_call.result.adjustment >= 0 - 50
           /\ last_call.result.adjustment + others >= 0 - 20
           /\ last_call.result.adjustment + others <= 0

\* The detector ran on a post 90 days old with no company name, a short text
\* and a template placeholder: every indicator at once.
C23_Witness ==
    /\ last_call.op = "detect_ghost_job"
    /\ last_call.signal.post_date = {0 - 90}
    /\ last_call.signal.company_name = {}
    /\ last_call.signal.text_length < 100
    /\ last_call.signal.has_placeholder
    /\ last_call.result.adjustment = 0 - 50

\* The score statements ran with the heuristics on.
ScoredWithExplanation ==
    /\ last_call.op = "score_signal"
    /\ last_call.result.score_explanation # {}

\* C21: the total score of a signal is built on the weighted base
\* fit*w_fit + pain*w_pain + quality*w_quality for the configured weights, and
\* agrees with the base_total of the score explanation for the same inputs.
C21_WeightedBase ==
    ScoredWithExplanation =>
        LET c           == last_call.c
            w           == settings.scoring_weights
            result      == last_call.result
            explanation == CHOOSE e \in result.score_explanation : TRUE
            weighted    == c.score_fit * w.icp_fit + c.score_pain * w.marketing_pain
                           + c.score_data_quality * w.data_quality
        IN /\ explanation.base_total = weighted
           /\ result.base_total = explanation.base_total
           /\ result.total_score =
                  clamp_score(weighted + result.total_adjustment + result.funding_bonus)

\* The funding events of the signal's own company announced within the
\* lookback window.
OwnRecentFunding(signal, funding_events, t) ==
    { e \in funding_events :
        /\ e.company_id # {}
        /\ e.company_id \subseteq CompanyOf(signal)
        /\ e.announced_date >= t - funding_boost_days }

HasFundingAdjustment(heuristic_adjustments) ==
    \E i \in DOMAIN heuristic_adjustments :
        heuristic_adjustments[i].category = "funding_event"

\* C22: the funding bonus is added, and a funding_event adjustment appended,
\* only when a funding event of the signal's own company was announced within
\* the lookback window.
C22_FundingOfOwnCompany ==
    last_call.op = "score_signal" =>
        LET own == OwnRecentFunding(last_call.signal, last_call.funding_events,
                                    last_call.at) # {}
        IN /\ last_call.result.funding_bonus # 0 => own
           /\ HasFundingAdjustment(last_call.result.heuristic_adjustments) => own

\* C24: for the same signal and classification the lead of the batch endpoint
\* has the total_score, the score_bucket and the heuristic-adjustment log of
\* the single-signal computation.
C24_BatchMatchesSingle ==
    (/\ last_call.op = "score_signal"
     /\ base_total(last_call.c) >= prefilter_score_threshold) =>
        LET batch  == BatchLead(last_call.c, base_total(last_call.c), last_call.at)
            single == last_call.result
        IN /\ batch.total_score = single.total_score
           /\ batch.score_bucket = single.score_bucket
           /\ batch.heuristic_adjustments = single.heuristic_adjustments

\* ---- auto-park sweep and overrides
\* The score columns of a lead row.
ScoreFields(lead) ==
    << lead.score_icp_fit, lead.score_marketing_pain, lead.score_data_quality,
       lead.total_score, lead.score_bucket, lead.manual_score_override >>

\* One step: a sweep that is not a dry run.
C25_SweepStep ==
    (now' = now /\ IsSweepResponse(resp')) =>
        LET selected == { i \in LeadIds :
                            /\ leads[i].status = "new"
                            /\ leads[i].created_at < now - auto_park_days
                            /\ leads[i].auto_parked_at = {} }
        IN /\ Len(leads') = Len(leads)
           /\ \A i \in selected :
                 /\ leads'[i].status = "parked"
                 /\ leads'[i].auto_parked_at = {now}
                 /\ ScoreFields(leads'[i]) = ScoreFields(leads[i])
           /\ \A i \in LeadIds \ selected : leads'[i] = leads[i]
           /\ resp'.body.parked_count = Cardinality(selected)
           /\ score_overrides' = score_overrides

\* C25: a sweep that is not a dry run sets status parked and stamps
\* auto_parked_at on exactly the leads that have status new, created_at older
\* than the day threshold and auto_parked_at null; it leaves every other lead
\* and every score field unchanged and returns the number of leads it parked.
C25_SweepFrame == [][C25_SweepStep]_vars

\* A sweep has parked one lead with an overridden score and left the other
\* lead, which is not new, alone.
C25_Witness ==
    /\ IsSweepResponse(resp)
    /\ resp.body.parked_count = 1
    /\ resp.body.cutoff_date = now - auto_park_days
    /\ \E i, j \in LeadIds :
          /\ leads[i].auto_parked_at = {now}
          /\ leads[i].manual_score_override # {}
          /\ leads[j].status # "new"
          /\ leads[j].auto_parked_at = {}

\* One step, for a lead that carries an auto-park stamp.
C30_StampedStep ==
    \A i \in LeadIds :
        leads[i].auto_parked_at # {} =>
            /\ leads'[i].auto_parked_at = leads[i].auto_parked_at
            /\ (now' = now /\ IsSweepResponse(resp')) => leads'[i] = leads[i]

\* C30: no operation resets auto_parked_at, and a sweep neither selects nor
\* parks a lead that carries the stamp, whatever its status: a lead is
\* auto-parked at most once.
C30_ParkedAtMostOnce == [][C30_StampedStep]_vars

\* A sweep ran over a stale lead that was auto-parked and set back to new:
\* it parked nothing and the lead is still new.
C30_Witness ==
    /\ IsSweepResponse(resp)
    /\ resp.body.cutoff_date = now - auto_park_days
    /\ resp.body.parked_count = 0
    /\ \E i \in LeadIds :
          /\ leads[i].status = "new"
          /\ leads[i].auto_parked_at # {}
          /\ leads[i].created_at < now - auto_park_days


\* The step is an override of lead i: a row for i joins the audit table.
OverrideStepOf(i) ==
    /\ Len(score_overrides') = Len(score_overrides) + 1
    /\ score_overrides'[Len(score_overrides')].lead_id = i

\* C26 (step part): a step that is not a score override of a lead leaves the
\* lead's total_score, score_bucket and manual_score_override as they were:
\* status updates, notes updates, sweeps and the dossier write-back never
\* change them.
C26_ScoreStep ==
    \A i \in LeadIds :
        OverrideStepOf(i) \/ ScoreFields(leads'[i]) = ScoreFields(leads[i])

\* C26: once a lead has been overridden with score s, its total_score and its
\* manual_score_override both stay s until its next override, whatever status
\* updates, notes updates, sweeps and dossier write-backs run in between.
C26_OverrideStands ==
    [][ /\ C26_ScoreStep
        /\ \A i \in LeadIds' :
              leads'[i].manual_score_override # {}
                  => leads'[i].manual_score_override = {leads'[i].total_score} ]_vars

\* A sweep has parked an overridden lead that also had its notes and its
\* dossier written, and the override stands.
C26_Witness ==
    /\ IsSweepResponse(resp)
    /\ \E i \in LeadIds :
          /\ leads[i].status = "parked"
          /\ leads[i].manual_score_override = {55}
          /\ leads[i].total_score = 55
          /\ leads[i].context_dossier # {}

\* The step is the commit of a sweep.
SweepCommitStep == sweep_session.open /\ ~sweep_session'.open

\* C27: a sweep is serialized against the other writers of a lead: what a
\* status update or an override committed between the sweep's query and its
\* commit is still there after the commit, and the sweep writes parked only to
\* a lead whose status is still new.
C27_SweepSerialized ==
    [][ SweepCommitStep =>
          \A i \in sweep_session.selected :
              /\ leads[i].status # sweep_session.rows[i].status
                    => leads'[i].status = leads[i].status
              /\ ScoreFields(leads'[i]) = ScoreFields(leads[i])
              /\ leads'[i].status = "parked" => leads[i].status = "new" ]_vars

====
